---- MODULE Spec2Model ----
(***************************************************************************)
(* Flight-Paths: the graph substrate (graph.rs), the flight-path builder   *)
(* (brr.rs), the Rural Postman heuristic (graph.rs heuristics) and the     *)
(* annealing driver of the snow plows (plow.rs).                           *)
(*                                                                         *)
(* Two implementations of the substrate live side by side in the           *)
(* repository:                                                             *)
(*   - graph.rs: Graph { edges: IndexMap<NId, HashSet<E>> }, modelled by   *)
(*     the variable `edges` (node -> set of edges);                        *)
(*   - brr.rs:   type Graph = IndexMap<NodeId, Vec<Rc<Edge>>>, modelled by *)
(*     the variable `g` (node -> sequence of edges).                       *)
(* Option<T> is modelled as a sequence of length 0 (None) or 1 (Some).     *)
(* Iteration order of a HashSet, the order of equal keys after             *)
(* sort_unstable_by_key and the order in which PriorityQueue pops equal    *)
(* priorities are left open by their contracts: they are nondeterministic  *)
(* choices in the model.                                                   *)
(*                                                                         *)
(* Specifications:                                                         *)
(*   SpecEuler  eulirianize (graph.rs) and kreek (brr.rs), one action per  *)
(*              loop iteration;                                            *)
(*   SpecPath   pathfind of graph.rs and of brr.rs, as functions;          *)
(*   SpecCycle  cycle_on (graph.rs) and bicycle (brr.rs), as functions;    *)
(*   SpecCover  bl33p (brr.rs), one action per loop iteration;             *)
(*   SpecPwrp   heuristics::solve_pwrp (graph.rs), one action per loop     *)
(*              iteration;                                                 *)
(*   SpecEulerLive  SpecEuler with the loops running to their end;         *)
(*   SpecSolve  road::solve and PlowSolver::solve (plow.rs): one action    *)
(*              per edge of initial_allocation and per main iteration;     *)
(*   SpecSnow   merge_snow_statuses (brr.rs), as a function;               *)
(*   SpecRepair the actions of SpecEuler on graphs with a third node and   *)
(*              a fourth road.                                             *)
(***************************************************************************)
EXTENDS Integers, Sequences, FiniteSets, TLC

\* ------------------------------------------------------------------ bounds
MaxNode == 2
MaxEdges == 3
\* the degree-repair loop is also run on graphs with a third node and a fourth
\* road, where two odd nodes need not be neighbours
MaxRepairNode == 3
MaxRepairEdges == 4
\* the searches and the tours run on graphs with a third node, so that a
\* detour over another node exists
MaxTourNode == 3
MaxTourEdges == 3
\* the most drones of a flight plan
MaxDrones == 2
MaxPlowEdges == 2
MaxMainIterations == 2
MaxSlowdown == 2
MaxWeight == 1
MaxSnows == 3
MaxDepth == 2

Nodes == 1..MaxNode
RepairNodes == 1..MaxRepairNode
TourNodes == 1..MaxTourNode
\* lengths of the input roads: a zero length and a positive one
Lens == {0, 1}

None == <<>>
Some(x) == <<x>>

VARIABLES
    func,      \* the function under execution
    pc,        \* its position
    DIRESPECT, \* the const generic DIRESPECT of the running function
    edges,     \* graph.rs Graph.edges
    g,         \* brr.rs Graph
    input,     \* the roads the graph was built from
    i,         \* kreek / eulirianize: index of the Phase A loop; bl33p: i
    args,      \* the arguments of the running function
    ret,       \* the value returned (Err payload, search result, tours)
    cycles,    \* bl33p: cycles
    complete,  \* bl33p: complete
    alloc,     \* solve_pwrp: alloc
    sol,       \* solve_pwrp: sol
    y,         \* bl33p / solve_pwrp: the index of the last splice
    solution,      \* PlowSolver::solve: solution
    value_best,    \* PlowSolver::solve: value_best
    cost_max_best, \* PlowSolver::solve: cost_max_best
    order,         \* PlowSolver::solve: order
    improv         \* PlowSolver::solve: the locals of the recycle step of the
                   \* last iteration (the moves, cost_improv_all,
                   \* cost_improv_max, value_improv, whether it was accepted)

vars == <<func, pc, DIRESPECT, edges, g, input, i, args, ret, cycles, complete, alloc, sol, y,
          solution, value_best, cost_max_best, order, improv>>

\* the state of the tour builders
tour_vars == <<cycles, complete, alloc, sol, y>>

NoTour == cycles = <<>> /\ complete = <<>> /\ alloc = {} /\ sol = <<>> /\ y = 0

\* the state of the annealing driver
plow_vars == <<solution, value_best, cost_max_best, order, improv>>

NoPlow ==
    solution = <<>> /\ value_best = 0 /\ cost_max_best = 0 /\ order = <<>> /\ improv = None

\* ------------------------------------------------------------------- edges
\* brr.rs Edge / plow.rs RoadEdge: identity is (p1, p2, discriminator, iidx)
EdgeEq(a, b) ==
    /\ a.p1 = b.p1
    /\ a.p2 = b.p2
    /\ a.discriminator = b.discriminator
    /\ a.iidx = b.iidx

is_cyclic(e) == e.p1 = e.p2

is_cycle(e) == e.p1 = e.p2

other(e, id) == IF id = e.p1 THEN e.p2 ELSE e.p1

is_incoming(D, e, id) == id = e.p2 \/ (id = e.p1 /\ (~D \/ ~e.directed))

is_outgoing(D, e, id) == id = e.p1 \/ (id = e.p2 /\ (~D \/ ~e.directed))

is_similar(a, b) ==
    /\ a.p1 = b.p1
    /\ a.p2 = b.p2
    /\ a.discriminator = b.discriminator

\* mutant of duped: no edge is taken for duplicated
duped_never(a, b) == FALSE

duped(a, b) ==
    /\ a.p1 = b.p1
    /\ a.p2 = b.p2
    /\ a.discriminator = b.discriminator
    /\ a.iidx # b.iidx

\* mutant of dupe: the copy keeps the iidx of the original
dupe_same_iidx(e) == e

dupe(e) == [e EXCEPT !.iidx = e.iidx + 1]

\* HashSet<E>::contains / Vec<E>::contains go through PartialEq
SetContains(S, e) == \E x \in S : EdgeEq(x, e)

SeqContains(s, e) == \E k \in 1..Len(s) : EdgeEq(s[k], e)

\* HashSet<E>::insert keeps the element already present
SetInsert(S, e) == IF SetContains(S, e) THEN S ELSE S \cup {e}

\* ------------------------------------------------------------ inputs
\* data::RoadSegment as it reaches the core (sidewalks is not consumed)
Roads(N) ==
    { r \in [p1 : N, p2 : N, discriminator : {None, Some(1)},
             directed : BOOLEAN, length : Lens] :
        IF r.directed THEN r.p1 # r.p2 ELSE r.p1 <= r.p2 }

\* a road may join a road set when its key is new; the discriminator is
\* only used to tell a second parallel road from the first
RoadFits(S, r) ==
    /\ \A s \in S : ~(s.p1 = r.p1 /\ s.p2 = r.p2 /\ s.discriminator = r.discriminator)
    /\ r.discriminator # None =>
         \E s \in S : s.p1 = r.p1 /\ s.p2 = r.p2 /\ s.discriminator = None

RECURSIVE RoadSets(_, _)
RoadSets(N, k) ==
    IF k = 0 THEN {{}}
    ELSE LET prev == RoadSets(N, k - 1)
         IN  prev \cup { p[1] \cup {p[2]} : p \in { q \in prev \X Roads(N) : RoadFits(q[1], q[2]) } }

RoadGraphs == RoadSets(Nodes, MaxEdges)

TourGraphs == RoadSets(TourNodes, MaxTourEdges)

RECURSIVE SetToSeq(_)
SetToSeq(S) ==
    IF S = {} THEN <<>>
    ELSE LET x == CHOOSE x \in S : TRUE IN <<x>> \o SetToSeq(S \ {x})

\* brr.rs TryFrom<RoadGraph> / plow.rs road::solve: a road becomes an edge with iidx 0
RoadEdge(r) ==
    [p1 |-> r.p1, p2 |-> r.p2, discriminator |-> r.discriminator,
     directed |-> r.directed, length |-> r.length, iidx |-> 0]

\* ------------------------------------------------------- graph.rs Graph
\* mutant of add_edge: the inserted edge replaces the similar edges of the set
add_edge_replacing(es, e) ==
    [n \in DOMAIN es |->
        IF n \in {e.p1, e.p2}
        THEN {x \in es[n] : ~is_similar(x, e)} \cup {e}
        ELSE es[n]]

\* mutant of add_edge: the edge is entered at its first endpoint alone
add_edge_one_end(es, e) == [es EXCEPT ![e.p1] = SetInsert(es[e.p1], e)]

add_edge(es, e) ==
    LET at2 == [es EXCEPT ![e.p2] = SetInsert(es[e.p2], e)]
    IN  IF is_cyclic(e) THEN at2
        ELSE [at2 EXCEPT ![e.p1] = SetInsert(at2[e.p1], e)]

RECURSIVE add_edges(_, _)
add_edges(es, rs) ==
    IF rs = <<>> THEN es ELSE add_edges(add_edge(es, RoadEdge(Head(rs))), Tail(rs))

\* road::solve: add_node for every node, add_edge for every road
Graph_new(N, roads) == add_edges([n \in N |-> {}], SetToSeq(roads))

Abs(x) == IF x < 0 THEN -x ELSE x

degree(D, es, n) ==
    IF D
    THEN -Abs(Cardinality({e \in es[n] : e.directed /\ e.p1 = n})
              - Cardinality({e \in es[n] : e.directed /\ e.p2 = n}))
         + Cardinality({e \in es[n] : ~e.directed /\ ~is_cyclic(e)})
    ELSE Cardinality({e \in es[n] : ~is_cyclic(e)})

\* mutant of eulirian_compatible: the sign of the degree is not looked at
eulirian_compatible_parity_only(D, es, n) == degree(D, es, n) % 2 = 0

eulirian_compatible(D, es, n) ==
    LET d == degree(D, es, n) IN d % 2 = 0 /\ (~D \/ d >= 0)

\* ----------------------------------------------------------- brr.rs Graph
\* mutant of add: a self-loop is pushed once
add_loop_once(gr, e) ==
    LET at1 == [gr EXCEPT ![e.p1] = Append(gr[e.p1], e)]
    IN  IF e.p1 = e.p2 THEN at1 ELSE [at1 EXCEPT ![e.p2] = Append(at1[e.p2], e)]

\* Edge::add pushes on the Vec of p1 and on the Vec of p2
add(gr, e) ==
    LET at1 == [gr EXCEPT ![e.p1] = Append(gr[e.p1], e)]
    IN  [at1 EXCEPT ![e.p2] = Append(at1[e.p2], e)]

RECURSIVE add_all(_, _)
add_all(gr, rs) ==
    IF rs = <<>> THEN gr ELSE add_all(add(gr, RoadEdge(Head(rs))), Tail(rs))

try_from(N, roads) == add_all([n \in N |-> <<>>], SetToSeq(roads))

combined_degree(D, n, es) ==
    IF D
    THEN -Abs(Cardinality({k \in 1..Len(es) : es[k].directed /\ es[k].p1 = n})
              - Cardinality({k \in 1..Len(es) : es[k].directed /\ es[k].p2 = n}))
         + Cardinality({k \in 1..Len(es) : ~es[k].directed})
    ELSE Len(es)

brr_eulirian_compatible(D, n, es) ==
    LET d == combined_degree(D, n, es) IN d % 2 = 0 /\ (~D \/ d >= 0)

\* ------------------------------------------------- Eulerisation (graph.rs)
\* road::solve passes |_| Some(0) as the priority callback
priority(e) == Some(0)

\* eulirianize, Phase B: the candidates of node u (epre and the DIRESPECT filter)
eulirianize_candidates(D, es, u) ==
    LET epre == { e \in es[u] :
                    /\ ~is_cyclic(e)
                    /\ ~\E ee \in es[u] : duped(e, ee)
                    /\ priority(e) # None }
        ind  == Cardinality({e \in es[u] : e.directed /\ e.p2 = u})
        outd == Cardinality({e \in es[u] : e.directed /\ e.p1 = u})
    IN  IF D
        THEN { e \in epre : \/ ~e.directed
                            \/ (outd > ind /\ e.p2 = u)
                            \/ (ind > outd /\ e.p1 = u) }
        ELSE epre

\* es[0] after sort_unstable_by_key(priority): any candidate of least priority
eulirianize_first(cands) ==
    { e \in cands : \A f \in cands : priority(e)[1] <= priority(f)[1] }

\* for i in 0..self.edges.len(): one iteration, or the exit of the loop
eulirianize_PhaseA ==
    /\ func = "eulirianize"
    /\ pc = "PhaseA"
    /\ IF i >= Cardinality(DOMAIN edges)
       THEN /\ pc' = "PhaseB"
            /\ UNCHANGED <<edges, i, ret>>
       ELSE LET u  == i + 1
                es == edges[u]
            IN  IF Cardinality(es) = 1
                THEN LET e == CHOOSE e \in es : TRUE
                     IN  IF DIRESPECT /\ e.directed /\ e.p2 = u
                         THEN /\ pc' = "Err"
                              /\ ret' = Some(e)
                              /\ UNCHANGED <<edges, i>>
                         ELSE /\ edges' = add_edge(edges, dupe(e))
                              /\ i' = i + 1
                              /\ UNCHANGED <<pc, ret>>
                ELSE /\ i' = i + 1
                     /\ UNCHANGED <<pc, edges, ret>>
    /\ UNCHANGED <<func, DIRESPECT, g, input, args>>
    /\ UNCHANGED tour_vars
    /\ UNCHANGED plow_vars

\* while let Some((u, es)) = self.edges.iter().find(not compatible): one
\* iteration, or Ok(()) when no node is left; es[0] of an empty Vec panics
eulirianize_PhaseB ==
    /\ func = "eulirianize"
    /\ pc = "PhaseB"
    /\ LET bad == { n \in DOMAIN edges : ~eulirian_compatible(DIRESPECT, edges, n) }
       IN  IF bad = {}
           THEN /\ pc' = "Ok"
                /\ UNCHANGED edges
           ELSE LET u     == CHOOSE n \in bad : \A m \in bad : n <= m
                    cands == eulirianize_candidates(DIRESPECT, edges, u)
                IN  IF cands = {}
                    THEN /\ pc' = "panic"
                         /\ UNCHANGED edges
                    ELSE /\ \E e \in eulirianize_first(cands) :
                                edges' = add_edge(edges, dupe(e))
                         /\ UNCHANGED pc
    /\ UNCHANGED <<func, DIRESPECT, g, input, i, args, ret>>
    /\ UNCHANGED tour_vars
    /\ UNCHANGED plow_vars

\* ----------------------------------------------------- Eulerisation (brr.rs)
SeqRange(s) == { s[k] : k \in 1..Len(s) }

\* the sort key of kreek_pick: (-(len(p1)%2 + len(p2)%2), length)
kreek_key(gr, e) == << -((Len(gr[e.p1]) % 2) + (Len(gr[e.p2]) % 2)), e.length >>

KeyLeq(a, b) == a[1] < b[1] \/ (a[1] = b[1] /\ a[2] <= b[2])

\* kreek_pick before .into_iter().next().unwrap(): the edges that may come first
kreek_pick(D, gr, n, es) ==
    LET epre == { e \in SeqRange(es) :
                    /\ ~is_cycle(e)
                    /\ Cardinality({k \in 1..Len(es) : is_similar(e, es[k])}) = 1 }
        ind  == Cardinality({k \in 1..Len(es) : es[k].directed /\ es[k].p2 = n})
        outd == Cardinality({k \in 1..Len(es) : es[k].directed /\ es[k].p1 = n})
        cand == IF D
                THEN { e \in epre : \/ ~e.directed
                                    \/ (outd > ind /\ e.p2 = n)
                                    \/ (ind > outd /\ e.p1 = n) }
                ELSE epre
    IN  { e \in cand : \A f \in cand : KeyLeq(kreek_key(gr, e), kreek_key(gr, f)) }

\* for i in 0..g.len(): one iteration, or the exit of the loop
kreek_PhaseA ==
    /\ func = "kreek"
    /\ pc = "PhaseA"
    /\ IF i >= Cardinality(DOMAIN g)
       THEN /\ pc' = "PhaseB"
            /\ UNCHANGED <<g, i, ret>>
       ELSE LET n  == i + 1
                es == g[n]
            IN  IF Len(es) = 1
                THEN LET e == es[1]
                     IN  IF DIRESPECT /\ e.directed /\ e.p2 = n
                         THEN /\ pc' = "Err"
                              /\ ret' = Some(e)
                              /\ UNCHANGED <<g, i>>
                         ELSE /\ g' = add(g, dupe(e))
                              /\ i' = i + 1
                              /\ UNCHANGED <<pc, ret>>
                ELSE /\ i' = i + 1
                     /\ UNCHANGED <<pc, g, ret>>
    /\ UNCHANGED <<func, DIRESPECT, edges, input, args>>
    /\ UNCHANGED tour_vars
    /\ UNCHANGED plow_vars

\* while let Some((n, es)) = g.iter().find(not compatible): one iteration, or
\* Ok(g) when no node is left; unwrap() of an empty pick panics
kreek_PhaseB ==
    /\ func = "kreek"
    /\ pc = "PhaseB"
    /\ LET bad == { n \in DOMAIN g : ~brr_eulirian_compatible(DIRESPECT, n, g[n]) }
       IN  IF bad = {}
           THEN /\ pc' = "Ok"
                /\ UNCHANGED g
           ELSE LET n    == CHOOSE n \in bad : \A m \in bad : n <= m
                    pick == kreek_pick(DIRESPECT, g, n, g[n])
                IN  IF pick = {}
                    THEN /\ pc' = "panic"
                         /\ UNCHANGED g
                    ELSE /\ \E e \in pick : g' = add(g, dupe(e))
                         /\ UNCHANGED pc
    /\ UNCHANGED <<func, DIRESPECT, edges, input, i, args, ret>>
    /\ UNCHANGED tour_vars
    /\ UNCHANGED plow_vars

EmptySets == [n \in Nodes |-> {}]
EmptyVecs == [n \in Nodes |-> <<>>]

InitEuler ==
    /\ func \in {"eulirianize", "kreek"}
    /\ pc = "PhaseA"
    /\ DIRESPECT \in BOOLEAN
    /\ input \in RoadGraphs
    /\ edges = IF func = "eulirianize" THEN Graph_new(Nodes, input) ELSE EmptySets
    /\ g = IF func = "kreek" THEN try_from(Nodes, input) ELSE EmptyVecs
    /\ i = 0
    /\ args = None
    /\ ret = None
    /\ NoTour
    /\ NoPlow

NextEuler ==
    \/ eulirianize_PhaseA
    \/ eulirianize_PhaseB
    \/ kreek_PhaseA
    \/ kreek_PhaseB

SpecEuler == InitEuler /\ [][NextEuler]_vars

\* the graph as built from the input, before Eulerisation
edges0 == Graph_new(Nodes, input)
g0 == try_from(Nodes, input)

\* the number of elements of Vec s equal to e
Occurrences(s, e) == Cardinality({k \in 1..Len(s) : s[k] = e})

C9_Monotone ==
    /\ func = "eulirianize" =>
         LET before == edges0
         IN  \A n \in Nodes :
                /\ before[n] \subseteq edges[n]
                /\ \A e \in edges[n] \ before[n] :
                     /\ e.iidx > 0
                     /\ [e EXCEPT !.iidx = 0] \in before[n]
    /\ func = "kreek" =>
         LET before == g0
         IN  \A n \in Nodes :
                /\ \A e \in SeqRange(before[n]) :
                     Occurrences(g[n], e) = Occurrences(before[n], e)
                /\ \A e \in SeqRange(g[n]) \ SeqRange(before[n]) :
                     /\ e.iidx > 0
                     /\ [e EXCEPT !.iidx = 0] \in SeqRange(before[n])

\* a duplicate was added next to the input edges
C9_Witness ==
    /\ func = "eulirianize"
    /\ pc = "PhaseB"
    /\ LET before == edges0
       IN  \E n \in Nodes : before[n] # {} /\ edges[n] # before[n]

\* some node's incidence collection is a single directed edge pointing into it
OneWayDeadEnd ==
    LET before == edges0
    IN  \E n \in Nodes :
            /\ Cardinality(before[n]) = 1
            /\ \A e \in before[n] : e.directed /\ e.p2 = n

\* C10: Eulerisation fails only for a one-way dead-end: it returns Err only
\* under DIRESPECT for a graph with a one-way dead-end, never returns Ok for
\* such a graph, and never aborts.
C10_FailsOnlyOnDeadEnd ==
    /\ pc # "panic"
    /\ pc = "Err" => (DIRESPECT /\ OneWayDeadEnd)
    /\ (pc = "Ok" /\ DIRESPECT) => ~OneWayDeadEnd

\* without DIRESPECT (the only instantiation the crate calls) Eulerisation
\* of these inputs neither fails nor aborts
EulerUndirectedNeverFails == ~DIRESPECT => pc \notin {"panic", "Err"}

\* ------------------------------------------------- PriorityQueue, HashMap
\* a PriorityQueue is the function from its items to their priorities, a
\* HashMap the function from its keys to their values
pq_new == [x \in {} |-> 0]

\* push / insert: the priority (value) of an item (key) already there is replaced
pq_push(q, x, p) == [z \in DOMAIN q \cup {x} |-> IF z = x THEN p ELSE q[z]]

\* pop returns an item of greatest priority
pq_top(q) == { x \in DOMAIN q : \A z \in DOMAIN q : q[z] <= q[x] }

pq_remove(q, x) == [z \in DOMAIN q \ {x} |-> q[z]]

\* every edge of a graph.rs graph
EdgesOf(es) == UNION { es[n] : n \in DOMAIN es }

\* ------------------------------------------- graph.rs pathfind (Dijkstra)
\* mutant of pathfind_visit: the distance is pushed as the priority, not its negation
pathfind_visit_farthest_first(D, w, u, d, st, e) ==
    IF (~D \/ ~e.directed \/ e.p1 = u) /\ w[e] # None
    THEN LET v  == other(e, u)
             dn == d + w[e][1]
         IN  IF v \notin DOMAIN st.dp \/ st.dp[v][1] > dn
             THEN [dp |-> pq_push(st.dp, v, <<dn, Some(e)>>),
                   q  |-> pq_push(st.q, v, dn)]
             ELSE st
    ELSE st

\* the body of `for e in self.get_edges(u)`; w is the weight callback as a
\* function from edges to Option<Weight>
pathfind_visit(D, w, u, d, st, e) ==
    IF (~D \/ ~e.directed \/ e.p1 = u) /\ w[e] # None
    THEN LET v  == other(e, u)
             dn == d + w[e][1]
         IN  IF v \notin DOMAIN st.dp \/ st.dp[v][1] > dn
             THEN [dp |-> pq_push(st.dp, v, <<dn, Some(e)>>),
                   q  |-> pq_push(st.q, v, -dn)]
             ELSE st
    ELSE st

\* the for loop over a HashSet: every iteration order
RECURSIVE pathfind_for(_, _, _, _, _, _)
pathfind_for(D, w, u, d, st, S) ==
    IF S = {} THEN {st}
    ELSE UNION { pathfind_for(D, w, u, d, pathfind_visit(D, w, u, d, st, e), S \ {e}) :
                 e \in S }

\* while let Some((_, Some(e))) = dp.get(&v), then path.reverse():
\* << the node the chain ends at, the path from it to v >>
RECURSIVE pathfind_back(_, _)
pathfind_back(dp, v) ==
    IF v \in DOMAIN dp /\ dp[v][2] # None
    THEN LET e == dp[v][2][1]
             r == pathfind_back(dp, other(e, v))
         IN  <<r[1], Append(r[2], e)>>
    ELSE <<v, <<>>>>

\* while let Some((u, _)) = q.pop(), shared by pathfind (n2 = {target}) and
\* pathfind_regions: the set of values it may return, Some(<<v, u, path>>) or None
RECURSIVE pathfind_while(_, _, _, _, _)
pathfind_while(D, es, n2, w, st) ==
    IF DOMAIN st.q = {} THEN {None}
    ELSE UNION {
           IF u \in n2
           THEN LET r == pathfind_back(st.dp, u) IN {Some(<<r[1], u, r[2]>>)}
           ELSE UNION { pathfind_while(D, es, n2, w, s2) :
                        s2 \in pathfind_for(D, w, u, st.dp[u][1],
                                            [st EXCEPT !.q = pq_remove(st.q, u)], es[u]) }
           : u \in pq_top(st.q) }

pathfind_regions(D, es, n1, n2, w) ==
    IF n1 = {} \/ n2 = {} THEN {None}
    ELSE pathfind_while(D, es, n2, w,
                        [dp |-> [n \in n1 |-> <<0, None>>], q |-> [n \in n1 |-> 0]])

pathfind(D, es, n1, n2, w) ==
    { IF r = None THEN None ELSE Some(r[1][3]) :
      r \in pathfind_while(D, es, {n2}, w,
                           [dp |-> pq_push(pq_new, n1, <<0, None>>), q |-> pq_push(pq_new, n1, 0)]) }

\* --------------------------------------------- brr.rs pathfind (Dijkstra)
brr_pathfind_visit(D, u, d, st, e) ==
    IF ~D \/ ~e.directed \/ e.p1 = u
    THEN LET v  == other(e, u)
             dn == d + e.length
         IN  IF v \notin DOMAIN st.dp \/ st.dp[v][1] > dn
             THEN [dp |-> pq_push(st.dp, v, <<dn, Some(e)>>),
                   q  |-> pq_push(st.q, v, -dn)]
             ELSE st
    ELSE st

\* the for loop over a Vec, in its order
RECURSIVE brr_pathfind_for(_, _, _, _, _)
brr_pathfind_for(D, u, d, st, s) ==
    IF s = <<>> THEN st
    ELSE brr_pathfind_for(D, u, d, brr_pathfind_visit(D, u, d, st, Head(s)), Tail(s))

RECURSIVE brr_pathfind_while(_, _, _, _)
brr_pathfind_while(D, gr, n2, st) ==
    IF DOMAIN st.q = {} THEN {None}
    ELSE UNION {
           IF u = n2
           THEN {Some(pathfind_back(st.dp, u)[2])}
           ELSE brr_pathfind_while(D, gr, n2,
                    brr_pathfind_for(D, u, st.dp[u][1],
                                     [st EXCEPT !.q = pq_remove(st.q, u)], gr[u]))
           : u \in pq_top(st.q) }

brr_pathfind(D, gr, n1, n2) ==
    brr_pathfind_while(D, gr, n2, [dp |-> pq_push(pq_new, n1, <<0, None>>), q |-> pq_push(pq_new, n1, 0)])

\* ------------------------------------- graph.rs cycle_on, brr.rs bicycle
\* cycle_on, the for loop: one push per usable edge of u; the pushed item
\* keeps the node u (graph.rs:198)
cycle_on_for(D, es, w, u, path, d, q) ==
    LET use == { e \in es[u] : /\ ~SeqContains(path, e)
                               /\ (~D \/ ~e.directed \/ e.p1 = u)
                               /\ w[e] # None }
        new == { <<u, Append(path, e)>> : e \in use }
    IN  [it \in DOMAIN q \cup new |->
            IF it \in new THEN d + w[it[2][Len(it[2])]][1] ELSE q[it]]

RECURSIVE cycle_on_while(_, _, _, _, _)
cycle_on_while(D, es, n, w, q) ==
    IF DOMAIN q = {} THEN {None}
    ELSE UNION {
           IF it[1] = n /\ it[2] # <<>>
           THEN {Some(it[2])}
           ELSE cycle_on_while(D, es, n, w,
                    cycle_on_for(D, es, w, it[1], it[2], q[it], pq_remove(q, it)))
           : it \in pq_top(q) }

cycle_on(D, es, n, w) == cycle_on_while(D, es, n, w, pq_push(pq_new, <<n, <<>>>>, 0))

\* bicycle, the for loop: the pushed item is at the other end of the edge
bicycle_for(D, gr, n, path, d, q) ==
    LET use == { e \in SeqRange(gr[n]) : /\ ~SeqContains(path, e)
                                         /\ (~D \/ ~e.directed \/ e.p1 = n) }
        new == { <<other(e, n), Append(path, e)>> : e \in use }
    IN  [it \in DOMAIN q \cup new |->
            IF it \in new THEN d + it[2][Len(it[2])].length ELSE q[it]]

\* the while loop, run from every queue of the set Q at once: the set of
\* the values it may return (Some(path) at the pop of a closed item, None
\* when a queue runs empty)
RECURSIVE bicycle_while(_, _, _, _)
bicycle_while(D, gr, n0, Q) ==
    IF Q = {} THEN {}
    ELSE LET pops   == UNION { { <<q, it>> : it \in pq_top(q) } : q \in Q }
             closed == { p \in pops : p[2][1] = n0 /\ Len(p[2][2]) > 0 }
         IN  { Some(p[2][2]) : p \in closed }
             \cup (IF \E q \in Q : DOMAIN q = {} THEN {None} ELSE {})
             \cup bicycle_while(D, gr, n0,
                      { bicycle_for(D, gr, p[2][1], p[2][2], p[1][p[2]], pq_remove(p[1], p[2])) :
                        p \in pops \ closed })

bicycle(D, gr, n0, ave) == bicycle_while(D, gr, n0, {pq_push(pq_new, <<n0, ave>>, 0)})

\* ------------------------------------------------------ the searches run
\* the weight callbacks of the callers: Some(length), or None for the edges
\* of a forbidden set (solve_pwrp: the edges already in the tour)
Weights(E) == { [e \in E |-> IF e \in F THEN None ELSE Some(e.length)] : F \in SUBSET E }

InitPath ==
    /\ func \in {"pathfind", "brr_pathfind"}
    /\ pc = "call"
    /\ DIRESPECT \in BOOLEAN
    /\ input \in TourGraphs
    /\ edges = IF func = "pathfind" THEN Graph_new(TourNodes, input)
                                    ELSE [n \in TourNodes |-> {}]
    /\ g = IF func = "brr_pathfind" THEN try_from(TourNodes, input)
                                    ELSE [n \in TourNodes |-> <<>>]
    /\ i = 0
    /\ args \in [n1 : TourNodes, n2 : TourNodes,
                 weight : IF func = "pathfind"
                          THEN Weights(EdgesOf(edges))
                          ELSE {[e \in {} |-> None]}]
    /\ ret = None
    /\ NoTour
    /\ NoPlow

pathfind_call ==
    /\ func = "pathfind"
    /\ pc = "call"
    /\ ret' \in pathfind(DIRESPECT, edges, args.n1, args.n2, args.weight)
    /\ pc' = "returned"
    /\ UNCHANGED <<func, DIRESPECT, edges, g, input, i, args>>
    /\ UNCHANGED tour_vars
    /\ UNCHANGED plow_vars

brr_pathfind_call ==
    /\ func = "brr_pathfind"
    /\ pc = "call"
    /\ ret' \in brr_pathfind(DIRESPECT, g, args.n1, args.n2)
    /\ pc' = "returned"
    /\ UNCHANGED <<func, DIRESPECT, edges, g, input, i, args>>
    /\ UNCHANGED tour_vars
    /\ UNCHANGED plow_vars

NextPath == pathfind_call \/ brr_pathfind_call

SpecPath == InitPath /\ [][NextPath]_vars

\* ------------------------------------------------- what the searches owe
\* every walk from u that repeats no edge, follows the directions when D
\* and uses only edges of E: the set of << end node, walk >>
RECURSIVE Trails(_, _, _, _)
Trails(D, E, u, path) ==
    {<<u, path>>} \cup
    UNION { Trails(D, E, other(e, u), Append(path, e)) :
            e \in { x \in E : /\ u \in {x.p1, x.p2}
                              /\ ~D \/ ~x.directed \/ x.p1 = u
                              /\ \A k \in 1..Len(path) : path[k] # x } }

RECURSIVE SumLength(_)
SumLength(path) == IF path = <<>> THEN 0 ELSE Head(path).length + SumLength(Tail(path))

\* the edges the running search may use
Allowed ==
    IF func \in {"pathfind", "cycle_on"}
    THEN { e \in EdgesOf(edges) : args.weight[e] # None }
    ELSE UNION { SeqRange(g[n]) : n \in DOMAIN g }

\* the walks from n1 to n2 over the allowed edges
Routes == { t[2] : t \in { x \in Trails(DIRESPECT, Allowed, args.n1, <<>>) : x[1] = args.n2 } }

\* C8: pathfind returns a path from a to b over allowed edges, in the allowed
\* directions, of minimum total weight among all such paths; it returns None
\* exactly when b cannot be reached from a
C8_PathfindShortest ==
    (func \in {"pathfind", "brr_pathfind"} /\ pc = "returned") =>
        LET routes == Routes
        IN  /\ ret = None <=> routes = {}
            /\ ret # None =>
                 /\ ret[1] \in routes
                 /\ \A r \in routes : SumLength(ret[1]) <= SumLength(r)

\* a detour over the third node is returned although a direct, longer road exists
C8_Witness ==
    /\ func \in {"pathfind", "brr_pathfind"}
    /\ pc = "returned"
    /\ ret # None
    /\ Len(ret[1]) = 2
    /\ \E r \in Routes : Len(r) = 1 /\ SumLength(r) > SumLength(ret[1])

\* there are roads at n1, and none of them leads to n2
C8_WitnessNone ==
    /\ func \in {"pathfind", "brr_pathfind"}
    /\ pc = "returned"
    /\ ret = None
    /\ NoTour
    /\ NoPlow
    /\ \E e \in Allowed : args.n1 \in {e.p1, e.p2}

\* ------------------------------------------------- the cycle searches run
InitCycle ==
    /\ func \in {"cycle_on", "bicycle"}
    /\ pc = "call"
    /\ DIRESPECT \in BOOLEAN
    /\ input \in TourGraphs
    /\ edges = IF func = "cycle_on" THEN Graph_new(TourNodes, input)
                                    ELSE [n \in TourNodes |-> {}]
    /\ g = IF func = "bicycle" THEN try_from(TourNodes, input)
                               ELSE [n \in TourNodes |-> <<>>]
    /\ i = 0
    /\ args \in [n : TourNodes,
                 weight : IF func = "cycle_on"
                          THEN Weights(EdgesOf(edges))
                          ELSE {[e \in {} |-> None]}]
    /\ ret = None
    /\ NoTour
    /\ NoPlow

cycle_on_call ==
    /\ func = "cycle_on"
    /\ pc = "call"
    /\ ret' \in cycle_on(DIRESPECT, edges, args.n, args.weight)
    /\ pc' = "returned"
    /\ UNCHANGED <<func, DIRESPECT, edges, g, input, i, args>>
    /\ UNCHANGED tour_vars
    /\ UNCHANGED plow_vars

bicycle_call ==
    /\ func = "bicycle"
    /\ pc = "call"
    /\ ret' \in bicycle(DIRESPECT, g, args.n, <<>>)
    /\ pc' = "returned"
    /\ UNCHANGED <<func, DIRESPECT, edges, g, input, i, args>>
    /\ UNCHANGED tour_vars
    /\ UNCHANGED plow_vars

NextCycle == cycle_on_call \/ bicycle_call

SpecCycle == InitCycle /\ [][NextCycle]_vars

\* the node a walk from v ends at, stepping to the other endpoint of each
\* edge; 0 when an edge is not at the node reached so far
RECURSIVE WalkEnd(_, _)
WalkEnd(path, v) ==
    IF path = <<>> THEN v
    ELSE IF v \in {Head(path).p1, Head(path).p2}
         THEN WalkEnd(Tail(path), other(Head(path), v))
         ELSE 0

Distinct(path) == \A j, k \in 1..Len(path) : j # k => path[j] # path[k]

\* the closed walks from v that repeat no edge and use allowed edges only
Cycles ==
    { t[2] : t \in { x \in Trails(DIRESPECT, Allowed, args.n, <<>>) :
                     x[1] = args.n /\ x[2] # <<>> } }

\* C6: a result Some(path) of the cycle search is a non-empty closed walk
\* from v over pairwise distinct, allowed edges; the result is None exactly
\* when no closed edge-distinct walk from v exists
C6_CycleSearch ==
    (func \in {"cycle_on", "bicycle"} /\ pc = "returned") =>
        /\ ret = None <=> Cycles = {}
        /\ ret # None =>
             /\ ret[1] # <<>>
             /\ WalkEnd(ret[1], args.n) = args.n
             /\ Distinct(ret[1])
             /\ \A k \in 1..Len(ret[1]) : ret[1][k] \in Allowed

\* bicycle alone does return closed walks, and None exactly when there is none
bicycle_closed ==
    (func = "bicycle" /\ pc = "returned") => C6_CycleSearch

\* C7: the edge sequence returned by the cycle search has minimum total
\* weight among the closed edge-distinct walks from v over allowed edges
C7_CycleShortest ==
    (func \in {"cycle_on", "bicycle"} /\ pc = "returned" /\ ret # None) =>
        \A c \in Cycles : SumLength(ret[1]) <= SumLength(c)

\* C7 for either search alone
bicycle_shortest == func = "bicycle" => C7_CycleShortest
cycle_on_shortest == func = "cycle_on" => C7_CycleShortest

\* ------------------------------------------------------- brr.rs bl33p
\* Edge::remove: retain(|e| e != self) on the Vec of p1 (unless a loop) and of p2
remove(gr, e) ==
    LET at1 == IF ~is_cycle(e)
               THEN [gr EXCEPT ![e.p1] = SelectSeq(gr[e.p1], LAMBDA x : ~EdgeEq(x, e))]
               ELSE gr
    IN  [at1 EXCEPT ![e.p2] = SelectSeq(at1[e.p2], LAMBDA x : ~EdgeEq(x, e))]

\* for e in &inj { e.remove(&mut g) }
RECURSIVE remove_all(_, _)
remove_all(gr, inj) ==
    IF inj = <<>> THEN gr ELSE remove_all(remove(gr, Head(inj)), Tail(inj))

graph_is_empty(gr) == \A n \in DOMAIN gr : gr[n] = <<>>

RECURSIVE path_length(_)
path_length(path) ==
    IF path = <<>> THEN 0 ELSE Head(path).length + path_length(Tail(path))

\* the Vec of (node, discriminator) a path visits from n0
RECURSIVE path_shmlop_from(_, _)
path_shmlop_from(vs, path) ==
    IF path = <<>> THEN vs
    ELSE path_shmlop_from(
             Append(vs, <<other(Head(path), vs[Len(vs)][1]), Head(path).discriminator>>),
             Tail(path))

path_shmlop(path, n0) == path_shmlop_from(<< <<n0, None>> >>, path)

\* mutant of splice: the tail of the Vec after the insertion point is dropped
splice_truncating(s, at, inj) == SubSeq(s, 1, at) \o inj

\* Vec::splice(y..y, inj)
splice(s, at, inj) == SubSeq(s, 1, at) \o inj \o SubSeq(s, at + 1, Len(s))

\* (0..sns.len()).filter(|i| !complete[*i]).min_by_key(path_length): the
\* first of the least; indices are 1-based here
bl33p_i ==
    LET inc == { k \in 1..Len(cycles) : ~complete[k] }
    IN  CHOOSE k \in inc :
          \A j \in inc : \/ path_length(cycles[k]) < path_length(cycles[j])
                         \/ path_length(cycles[k]) = path_length(cycles[j]) /\ k <= j

\* mutant of bl33p_vy: the index is one further
bl33p_vy_next(gr, cycle, n) ==
    IF Len(cycle) > 0
    THEN LET shmlop == path_shmlop(cycle, n)
             left   == { k \in 1..(Len(shmlop) - 1) : Len(gr[shmlop[k][1]]) > 0 }
         IN  IF left = {} THEN None
             ELSE LET k == CHOOSE k \in left : \A j \in left : k <= j
                  IN  Some(<<shmlop[k][1], k>>)
    ELSE Some(<<n, 0>>)

\* the (v, y) of an iteration: the first node of the cycle that still has
\* edges and its index, (n, 0) for an empty cycle
bl33p_vy(gr, cycle, n) ==
    IF Len(cycle) > 0
    THEN LET shmlop == path_shmlop(cycle, n)
             left   == { k \in 1..(Len(shmlop) - 1) : Len(gr[shmlop[k][1]]) > 0 }
         IN  IF left = {} THEN None
             ELSE LET k == CHOOSE k \in left : \A j \in left : k <= j
                  IN  Some(<<shmlop[k][1], k - 1>>)
    ELSE Some(<<n, 0>>)

bl33p_looping ==
    /\ func = "bl33p"
    /\ pc = "while"
    /\ Len(cycles) > 0
    /\ ~graph_is_empty(g)

\* an iteration that inflates cycle i with a cycle on v
bl33p_inflate ==
    /\ bl33p_looping
    /\ LET vy == bl33p_vy(g, cycles[bl33p_i], args.sns[bl33p_i])
       IN  /\ vy # None
           /\ \E inj \in bicycle(DIRESPECT, g, vy[1][1], <<>>) :
                /\ inj # None
                /\ g' = remove_all(g, inj[1])
                /\ cycles' = [cycles EXCEPT ![bl33p_i] = splice(@, vy[1][2], inj[1])]
                /\ y' = vy[1][2]
    /\ i' = bl33p_i
    /\ UNCHANGED <<func, pc, DIRESPECT, edges, input, args, ret, complete, alloc, sol>>
    /\ UNCHANGED plow_vars

\* bicycle(..).unwrap() on None
bl33p_panic ==
    /\ bl33p_looping
    /\ LET vy == bl33p_vy(g, cycles[bl33p_i], args.sns[bl33p_i])
       IN  /\ vy # None
           /\ None \in bicycle(DIRESPECT, g, vy[1][1], <<>>)
    /\ pc' = "panic"
    /\ i' = bl33p_i
    /\ UNCHANGED <<func, DIRESPECT, edges, g, input, args, ret, cycles, complete, alloc, sol, y>>
    /\ UNCHANGED plow_vars

\* an iteration that finds no node to inflate: cycle i is complete; the
\* loop is left when every cycle is
bl33p_complete ==
    /\ bl33p_looping
    /\ bl33p_vy(g, cycles[bl33p_i], args.sns[bl33p_i]) = None
    /\ complete' = [complete EXCEPT ![bl33p_i] = TRUE]
    /\ i' = bl33p_i
    /\ IF \A k \in 1..Len(complete) : complete'[k]
       THEN /\ g' = [n \in { m \in DOMAIN g : Len(g[m]) > 0 } |-> g[n]]
            /\ pc' = "returned"
            /\ ret' = cycles
       ELSE UNCHANGED <<g, pc, ret>>
    /\ UNCHANGED <<func, DIRESPECT, edges, input, args, cycles, alloc, sol, y>>
    /\ UNCHANGED plow_vars

\* the loop condition fails
bl33p_return ==
    /\ func = "bl33p"
    /\ pc = "while"
    /\ ~(Len(cycles) > 0 /\ ~graph_is_empty(g))
    /\ pc' = "returned"
    /\ ret' = cycles
    /\ UNCHANGED <<func, DIRESPECT, edges, g, input, i, args, cycles, complete, alloc, sol, y>>
    /\ UNCHANGED plow_vars

\* construct_flight_paths runs bl33p::<false>
InitCover ==
    /\ func = "bl33p"
    /\ pc = "while"
    /\ DIRESPECT = FALSE
    /\ input \in TourGraphs
    /\ edges = [n \in TourNodes |-> {}]
    /\ g = try_from(TourNodes, input)
    /\ i = 0
    /\ args \in [sns : UNION { [1..k -> TourNodes] : k \in 0..MaxDrones }]
    /\ ret = None
    /\ cycles = [k \in 1..Len(args.sns) |-> <<>>]
    /\ complete = [k \in 1..Len(args.sns) |-> FALSE]
    /\ alloc = {}
    /\ sol = <<>>
    /\ y = 0
    /\ NoPlow

NextCover ==
    \/ bl33p_inflate
    \/ bl33p_panic
    \/ bl33p_complete
    \/ bl33p_return

SpecCover == InitCover /\ [][NextCover]_vars

\* ------------------------------------------------- what the cover owes
\* the graph bl33p was called with
g_in == try_from(TourNodes, input)

edges_in == UNION { SeqRange(g_in[n]) : n \in DOMAIN g_in }

\* the nodes joined to a node of S by a chain of edges
RECURSIVE Component(_, _)
Component(E, S) ==
    LET T == S \cup { e.p1 : e \in { x \in E : x.p2 \in S } }
               \cup { e.p2 : e \in { x \in E : x.p1 \in S } }
    IN  IF T = S THEN S ELSE Component(E, T)

\* the edges hang together
Connected(E) ==
    \A e, f \in E : f.p1 \in Component(E, {e.p1})

Eulerianised == \A n \in DOMAIN g_in : brr_eulirian_compatible(DIRESPECT, n, g_in[n])

\* each edge of the input in exactly one returned tour, exactly once, and
\* nothing but edges of the input in the tours
Covered ==
    /\ \A e \in edges_in :
         \E k \in 1..Len(ret) :
            /\ Occurrences(ret[k], e) = 1
            /\ \A j \in 1..Len(ret) : j # k => Occurrences(ret[j], e) = 0
    /\ \A k \in 1..Len(ret) : \A j \in 1..Len(ret[k]) : ret[k][j] \in edges_in

\* C2 as stated, for any number K of anchors: when bl33p returns on a
\* connected Eulerianised graph, the multiset union of the edges of the
\* returned tours is the multiset of the edges of the input graph
C2_CoverAnyK ==
    (func = "bl33p" /\ pc = "returned" /\ Eulerianised /\ Connected(edges_in)) => Covered

\* C2: for a connected Eulerianised graph and K >= 1 anchors, when bl33p
\* returns, every edge of the input graph appears in exactly one returned
\* tour and exactly once in it
C2_Cover ==
    (func = "bl33p" /\ pc = "returned" /\ Len(args.sns) >= 1
        /\ Eulerianised /\ Connected(edges_in)) => Covered

\* two drones have shared the edges of a connected Eulerianised graph
C2_Witness ==
    /\ func = "bl33p"
    /\ pc = "returned"
    /\ Eulerianised
    /\ Connected(edges_in)
    /\ Len(ret) = 2
    /\ ret[1] # <<>>
    /\ ret[2] # <<>>
    /\ Covered

\* C3: every tour of bl33p, after every splice and at return, is a closed
\* edge sequence from its anchor: stepping from s_i to the other endpoint of
\* each edge in turn meets every edge at one of its endpoints and ends at s_i
C3_ToursClosed ==
    func = "bl33p" =>
        /\ \A k \in 1..Len(cycles) : WalkEnd(cycles[k], args.sns[k]) = args.sns[k]
        /\ pc = "returned" => ret = cycles

\* a cycle has been spliced into the middle of a tour
C3_Witness ==
    /\ func = "bl33p"
    /\ y > 0
    /\ y < Len(cycles[i])
    /\ WalkEnd(cycles[i], args.sns[i]) = args.sns[i]

\* ---------------------------------------- graph.rs heuristics::solve_pwrp
\* Graph::path_to_nodes: the Vec of (node, edge) a path visits from n
RECURSIVE path_to_nodes_from(_, _)
path_to_nodes_from(vs, path) ==
    IF path = <<>> THEN vs
    ELSE path_to_nodes_from(
             Append(vs, <<other(Head(path), vs[Len(vs)][1]), Some(Head(path))>>),
             Tail(path))

path_to_nodes(path, n) == path_to_nodes_from(<< <<n, None>> >>, path)

\* plow.rs calls solve_pwrp with |e| Some(e.weight())
weight(es) == [e \in EdgesOf(es) |-> Some(e.length)]

\* mutant of sol_weight: the edges of the tour keep their weight
sol_weight_of_all(es, w, tour, p) ==
    [e \in EdgesOf(es) |-> IF ~SeqContains(p, e) THEN w[e] ELSE None]

\* the macro sol_weight!(), and the callback of the way back with p
sol_weight(es, w, tour, p) ==
    [e \in EdgesOf(es) |->
        IF ~SeqContains(tour, e) /\ ~SeqContains(p, e) THEN w[e] ELSE None]

\* mutant of sol_inject_alloc: the roads parallel to an injected edge leave alloc too
sol_inject_alloc_parallel(al, inj) ==
    { e \in al : ~\E k \in 1..Len(inj) : {e.p1, e.p2} = {inj[k].p1, inj[k].p2} }

\* the macro sol_inject!(), on alloc: for e in &inj { alloc.remove(e) }
sol_inject_alloc(al, inj) == { e \in al : ~SeqContains(inj, e) }

\* the growth step looks for the first node of the tour sl from sp with an
\* edge that is in al and not in sl: Some(<<v, y>>) or None
growth(es, sp, sl, al) ==
    LET ns   == path_to_nodes(sl, sp)
        open == { k \in 1..Len(ns) :
                    \E e \in es[ns[k][1]] : ~SeqContains(sl, e) /\ SetContains(al, e) }
    IN  IF open = {} THEN None
        ELSE LET k == CHOOSE k \in open : \A j \in open : k <= j
             IN  Some(<<ns[k][1], k - 1>>)

pwrp_vy == growth(edges, args.sp, sol, alloc)

\* the reach step: the end nodes of al a detour may start from
reach_vs(D, al) ==
    UNION { IF ~D \/ ~e.directed THEN {e.p1, e.p2} ELSE {e.p1} : e \in al }

pwrp_vs == reach_vs(DIRESPECT, alloc)

\* the reach step: the IndexMap from the nodes of the tour that have an unused
\* edge in and an unused edge out to their index; a later index replaces an
\* earlier one
reach_us(D, es, sp, sl) ==
    LET ns  == path_to_nodes(sl, sp)
        has == { k \in 1..Len(ns) :
                   LET u    == ns[k][1]
                       ures == { e \in es[u] : ~SeqContains(sl, e) }
                   IN  /\ \E e \in ures : is_incoming(D, e, u)
                       /\ \E e \in ures : is_outgoing(D, e, u) }
    IN  [u \in { ns[k][1] : k \in has } |->
            (CHOOSE k \in has : ns[k][1] = u /\ \A j \in has : ns[j][1] = u => j <= k) - 1]

pwrp_us == reach_us(DIRESPECT, edges, args.sp, sol)

\* the reach step: the detours << inj, y >> it may find
reach_detours(D, es, sp, sl, al) ==
    LET us == reach_us(D, es, sp, sl)
        w  == weight(es)
    IN  UNION {
          IF r = None THEN {}
          ELSE LET u == r[1][1]
                   v == r[1][2]
               IN  UNION {
                     LET p == Append(r[1][3], e)
                     IN  { <<p \o pb[1], us[u]>> :
                           pb \in { x \in pathfind(D, es, other(e, v), u,
                                                   sol_weight(es, w, sl, p)) : x # None } }
                     : e \in { x \in al : is_outgoing(D, x, v) } }
          : r \in pathfind_regions(D, es, DOMAIN us, reach_vs(D, al),
                                   sol_weight(es, w, sl, <<>>)) }

pwrp_detours == reach_detours(DIRESPECT, edges, args.sp, sol, alloc)

\* the reach step may fail: no path between the regions, or no way back
reach_fails(D, es, sp, sl, al) ==
    LET us == reach_us(D, es, sp, sl)
        w  == weight(es)
    IN  \E r \in pathfind_regions(D, es, DOMAIN us, reach_vs(D, al),
                                  sol_weight(es, w, sl, <<>>)) :
          IF r = None THEN TRUE
          ELSE \E e \in { x \in al : is_outgoing(D, x, r[1][2]) } :
                 None \in pathfind(D, es, other(e, r[1][2]), r[1][1],
                                   sol_weight(es, w, sl, Append(r[1][3], e)))

pwrp_unreachable == reach_fails(DIRESPECT, edges, args.sp, sol, alloc)

pwrp_looping ==
    /\ func = "solve_pwrp"
    /\ pc = "while"
    /\ alloc # {}

\* an iteration that injects a cycle on the node v of the tour
pwrp_cycle ==
    /\ pwrp_looping
    /\ pwrp_vy # None
    /\ \E inj \in cycle_on(DIRESPECT, edges, pwrp_vy[1][1],
                           sol_weight(edges, weight(edges), sol, <<>>)) :
         /\ inj # None
         /\ alloc' = sol_inject_alloc(alloc, inj[1])
         /\ sol' = splice(sol, pwrp_vy[1][2], inj[1])
    /\ y' = pwrp_vy[1][2]
    /\ UNCHANGED <<func, pc, DIRESPECT, edges, g, input, i, args, ret, cycles, complete>>
    /\ UNCHANGED plow_vars

\* cycle_on(..).unwrap() on None
pwrp_panic ==
    /\ pwrp_looping
    /\ pwrp_vy # None
    /\ None \in cycle_on(DIRESPECT, edges, pwrp_vy[1][1],
                         sol_weight(edges, weight(edges), sol, <<>>))
    /\ pc' = "panic"
    /\ UNCHANGED <<func, DIRESPECT, edges, g, input, i, args, ret, cycles, complete, alloc, sol, y>>
    /\ UNCHANGED plow_vars

\* an iteration that injects a detour to a distant edge of alloc and back
pwrp_connect ==
    /\ pwrp_looping
    /\ pwrp_vy = None
    /\ \E d \in pwrp_detours :
         /\ alloc' = sol_inject_alloc(alloc, d[1])
         /\ sol' = splice(sol, d[2], d[1])
         /\ y' = d[2]
    /\ UNCHANGED <<func, pc, DIRESPECT, edges, g, input, i, args, ret, cycles, complete>>
    /\ UNCHANGED plow_vars

\* return Err(alloc)
pwrp_err ==
    /\ pwrp_looping
    /\ pwrp_vy = None
    /\ pwrp_unreachable
    /\ pc' = "Err"
    /\ ret' = alloc
    /\ UNCHANGED <<func, DIRESPECT, edges, g, input, i, args, cycles, complete, alloc, sol, y>>
    /\ UNCHANGED plow_vars

\* the loop ends: Ok(sol)
pwrp_ok ==
    /\ func = "solve_pwrp"
    /\ pc = "while"
    /\ alloc = {}
    /\ pc' = "Ok"
    /\ ret' = sol
    /\ UNCHANGED <<func, DIRESPECT, edges, g, input, i, args, cycles, complete, alloc, sol, y>>
    /\ UNCHANGED plow_vars

InitPwrp ==
    /\ func = "solve_pwrp"
    /\ pc = "while"
    /\ DIRESPECT \in BOOLEAN
    /\ input \in TourGraphs
    /\ edges = Graph_new(TourNodes, input)
    /\ g = [n \in TourNodes |-> <<>>]
    /\ i = 0
    /\ args \in [sp : TourNodes, alloc : SUBSET EdgesOf(edges)]
    /\ ret = None
    /\ cycles = <<>>
    /\ complete = <<>>
    /\ alloc = args.alloc
    /\ sol = <<>>
    /\ y = 0
    /\ NoPlow

NextPwrp ==
    \/ pwrp_cycle
    \/ pwrp_panic
    \/ pwrp_connect
    \/ pwrp_err
    \/ pwrp_ok

SpecPwrp == InitPwrp /\ [][NextPwrp]_vars

\* C4: whenever solve_pwrp returns Ok(sol), every edge of the required set R
\* it was called with occurs in sol
C4_OkContainsR ==
    (func = "solve_pwrp" /\ pc = "Ok") =>
        \A e \in args.alloc : \E k \in 1..Len(ret) : ret[k] = e

\* Ok after a detour to a required edge away from the start
C4_Witness ==
    /\ func = "solve_pwrp"
    /\ pc = "Ok"
    /\ args.alloc # {}
    /\ \A e \in args.alloc : args.sp \notin {e.p1, e.p2}
    /\ \A e \in args.alloc : \E k \in 1..Len(ret) : ret[k] = e

\* C5: whenever solve_pwrp returns Ok(sol) for start s, sol is a closed walk
\* from s: each edge is at the node reached so far and the walk ends at s
C5_OkClosedWalk ==
    (func = "solve_pwrp" /\ pc = "Ok") => WalkEnd(ret, args.sp) = args.sp

\* ------------------------------------------- Eulerisation runs to its end
\* the loops are sequential code: an iteration that can run does run
SpecEulerLive == InitEuler /\ [][NextEuler]_vars /\ WF_vars(NextEuler)

\* C11: on every finite input graph, with and without DIRESPECT, the
\* degree-repair loop (Phase B) of eulirianize and of kreek is left after
\* finitely many duplications
C11_PhaseBTerminates == <>(pc \in {"Ok", "Err", "panic"})

\* Phase B of eulirianize ran, duplicated an edge of a node with three or
\* more edges, and returned Ok
C11_Witness ==
    /\ func = "eulirianize"
    /\ pc = "Ok"
    /\ LET before == edges0
       IN  \E n \in Nodes : Cardinality(before[n]) >= 3 /\ edges[n] # before[n]

\* while it runs, Phase B of eulirianize never holds more than one duplicate
\* of an input edge
C11_OneDuplicatePerEdge ==
    func = "eulirianize" =>
        \A n \in Nodes : \A e \in edges[n] : e.iidx <= 1

\* C12: on every Eulerianised graph and every list of K anchors, bl33p does
\* not abort, and what it returns is a list of exactly K sequences
C12_ReturnsKTours ==
    (func = "bl33p" /\ Eulerianised) =>
        /\ pc # "panic"
        /\ pc = "returned" => Len(ret) = Len(args.sns)

\* the abort with an anchor that has a road of its own: another anchor's
\* tour has taken it
C12_AbortOnSharedRoads ==
    (func = "bl33p" /\ Eulerianised /\ edges_in # {}
        /\ \A k \in 1..Len(args.sns) : Len(g_in[args.sns[k]]) > 0
        /\ Connected(edges_in))
    => pc # "panic"

\* the runs of bl33p that return give one sequence per anchor
C12_ReturnedHasK ==
    (func = "bl33p" /\ pc = "returned") => Len(ret) = Len(args.sns)

\* ------------------------------------------------ the failures of solve_pwrp
\* the edges of R that are not in the tour built so far
pwrp_residual == { e \in args.alloc : ~SeqContains(sol, e) }

\* C13: solve_pwrp does not abort, and the payload of Err is the set of the
\* edges of R that are not in the tour built so far, non-empty and within R
C13_ErrResidual ==
    func = "solve_pwrp" =>
        /\ pc # "panic"
        /\ pc = "Err" => (ret = pwrp_residual /\ ret # {} /\ ret \subseteq args.alloc)

\* the payload of Err taken alone
C13_ErrPayload ==
    (func = "solve_pwrp" /\ pc = "Err") =>
        (ret = pwrp_residual /\ ret # {} /\ ret \subseteq args.alloc)

\* without DIRESPECT solve_pwrp does not abort
C13_NoAbortUndirected ==
    (func = "solve_pwrp" /\ ~DIRESPECT) => pc # "panic"

\* Err after a part of R went into the tour
C13_ErrReached ==
    ~(func = "solve_pwrp" /\ pc = "Err" /\ sol # <<>> /\ ret # args.alloc)

\* ------------------------------------------------ solve_pwrp as one call
\* what a call of solve_pwrp may give, as the annealing driver sees it
Ok(sl) == [tag |-> "Ok", sol |-> sl, alloc |-> {}]
Err(al) == [tag |-> "Err", sol |-> <<>>, alloc |-> al]
Panic == [tag |-> "panic", sol |-> <<>>, alloc |-> {}]

\* while !alloc.is_empty() { .. } Ok(sol), from every << sol, alloc >> of S
RECURSIVE solve_pwrp_while(_, _, _, _)
solve_pwrp_while(D, es, sp, S) ==
    IF S = {} THEN {}
    ELSE LET run    == { x \in S : x[2] # {} }
             grow   == { x \in run : growth(es, sp, x[1], x[2]) # None }
             far    == run \ grow
             found(x) == cycle_on(D, es, growth(es, sp, x[1], x[2])[1][1],
                                  sol_weight(es, weight(es), x[1], <<>>))
             cycled == UNION { { << splice(x[1], growth(es, sp, x[1], x[2])[1][2], inj[1]),
                                    sol_inject_alloc(x[2], inj[1]) >>
                                 : inj \in found(x) \ {None} } : x \in grow }
             joined == UNION { { << splice(x[1], d[2], d[1]), sol_inject_alloc(x[2], d[1]) >>
                                 : d \in reach_detours(D, es, sp, x[1], x[2]) } : x \in far }
         IN  { Ok(x[1]) : x \in S \ run }
               \cup { Panic : x \in { z \in grow : None \in found(z) } }
               \cup { Err(x[2]) : x \in { z \in far : reach_fails(D, es, sp, z[1], z[2]) } }
               \cup solve_pwrp_while(D, es, sp, cycled \cup joined)

solve_pwrp(D, es, sp, al) == solve_pwrp_while(D, es, sp, { << <<>>, al >> })

\* ------------------------------------------------ plow.rs: road::solve
\* eulirianize as one call, Phase A from node k on: the graph, or nothing
\* when Err is returned
RECURSIVE eulirianize_A(_, _, _)
eulirianize_A(D, es, k) ==
    IF k > Cardinality(DOMAIN es) THEN {es}
    ELSE IF Cardinality(es[k]) = 1
         THEN LET e == CHOOSE e \in es[k] : TRUE
              IN  IF D /\ e.directed /\ e.p2 = k THEN {}
                  ELSE eulirianize_A(D, add_edge(es, dupe(e)), k + 1)
         ELSE eulirianize_A(D, es, k + 1)

\* Phase B from every graph of S: the graphs Ok(()) may leave
RECURSIVE eulirianize_B(_, _)
eulirianize_B(D, S) ==
    IF S = {} THEN {}
    ELSE LET bad(x)  == { n \in DOMAIN x : ~eulirian_compatible(D, x, n) }
             u(x)    == CHOOSE n \in bad(x) : \A m \in bad(x) : n <= m
             open    == { x \in S : bad(x) # {} }
         IN  (S \ open) \cup
             eulirianize_B(D, UNION { { add_edge(x, dupe(e)) :
                                         e \in eulirianize_first(eulirianize_candidates(D, x, u(x))) }
                                      : x \in open })

\* g.graph.graph.eulirianize::<_, _, _, _, false>(..).unwrap()
eulirianize(D, es) == eulirianize_B(D, eulirianize_A(D, es, 1))

\* RoadNode.coordinates: node n lies at (n, 0)
coordinates == [n \in Nodes |-> <<n, 0>>]

\* data.rs: impl Distance for (f64, f64)
distance(c, c2) == (c[1] - c2[1]) * (c[1] - c2[1]) + (c[2] - c2[2]) * (c[2] - c2[2])

\* brr::meta
Recycle == {"No", "ExpensiveToCheap"}
Clearing == {"OnlyAllocated", "All"}
Reorder == {"No", "Swap2Random", "Swap2MostLeast", "RandomReorder"}

\* brr::meta::Parameters, the fields solve reads; the value of a solution
\* is weighted on its total cost or on its greatest cost
Parameters ==
    { p \in [recycle : Recycle, clearing : Clearing, reorder : Reorder,
             main_iterations : {MaxMainIterations},
             slowdown : {MaxSlowdown},
             weight_total : 0..MaxWeight, weight_max : 0..MaxWeight] :
        p.weight_total + p.weight_max = MaxWeight }

\* N64::infinity()
Infinity == 1000

\* ------------------------------------------------ plow.rs: PlowSolver
\* the closure closest of initial_allocation: min_by_key gives the first of
\* the nearest; vehicles are numbered from 1 here
closest(locs, c) ==
    CHOOSE k \in 1..Len(locs) :
        \A j \in 1..Len(locs) :
            \/ distance(c, locs[k]) < distance(c, locs[j])
            \/ (distance(c, locs[k]) = distance(c, locs[j]) /\ k <= j)

\* the body of the loop of initial_allocation
allocate(locs, al, e) ==
    LET lv1 == closest(locs, coordinates[e.p1])
        lv2 == closest(locs, coordinates[e.p2])
        lv  == IF lv1 = lv2 \/ Cardinality(al[lv2]) > Cardinality(al[lv1]) THEN lv1 ELSE lv2
    IN  [al EXCEPT ![lv] = SetInsert(al[lv], e)]

\* for e in snowy { .. }: one iteration in the order the HashSet gives, or
\* the end of the loop and the locals of solve before its main loop
initial_allocation ==
    /\ func = "solve"
    /\ pc = "initial_allocation"
    /\ LET rest == args.snowy \ UNION SeqRange(alloc)
       IN  IF rest = {}
           THEN /\ pc' = "main"
                /\ solution' = [k \in 1..Len(args.sps) |-> <<>>]
                /\ value_best' = Infinity
                /\ cost_max_best' = Infinity
                /\ order' = [k \in 1..Len(args.sps) |-> k]
                /\ UNCHANGED alloc
           ELSE /\ \E e \in rest : alloc' = allocate(args.locs, alloc, e)
                /\ UNCHANGED <<pc, solution, value_best, cost_max_best, order>>
    /\ UNCHANGED <<func, DIRESPECT, edges, g, input, i, args, ret, cycles, complete, sol, y,
                   improv>>

\* mutant of sol_to_alloc_edge: the edge is not taken from the other vehicles
sol_to_alloc_edge_shared(allocs, v, e, snowy) ==
    IF SetContains(snowy, e) /\ ~SetContains(allocs[v], e)
    THEN [allocs EXCEPT ![v] = allocs[v] \cup {e}]
    ELSE allocs

\* sol_to_alloc, the body for edge e of the solution of vehicle v
sol_to_alloc_edge(allocs, v, e, snowy) ==
    IF SetContains(snowy, e) /\ ~SetContains(allocs[v], e)
    THEN [a \in DOMAIN allocs |->
            IF a = v THEN allocs[a] \cup {e}
            ELSE { x \in allocs[a] : ~EdgeEq(x, e) }]
    ELSE allocs

\* sol_to_alloc: for e in &sols[i]
RECURSIVE sol_to_alloc_path(_, _, _, _)
sol_to_alloc_path(allocs, v, path, snowy) ==
    IF path = <<>> THEN allocs
    ELSE sol_to_alloc_path(sol_to_alloc_edge(allocs, v, Head(path), snowy), v, Tail(path), snowy)

\* sol_to_alloc: for i in order
RECURSIVE sol_to_alloc(_, _, _, _)
sol_to_alloc(ord, sols, allocs, snowy) ==
    IF ord = <<>> THEN allocs
    ELSE sol_to_alloc(Tail(ord), sols,
                      sol_to_alloc_path(allocs, Head(ord), sols[Head(ord)], snowy), snowy)

\* the sum of cycle_cost_compute!: an edge of slowed costs slowdown times its weight
RECURSIVE cycle_cost_compute(_, _, _)
cycle_cost_compute(sl, slowed, slowdown) ==
    IF sl = <<>> THEN 0
    ELSE Head(sl).length * (IF SetContains(slowed, Head(sl)) THEN slowdown ELSE 1)
           + cycle_cost_compute(Tail(sl), slowed, slowdown)

\* cycle_cost_compute!(sol, alloc, dun): the edges that are slowed
slowed_dun(params, snowy, al, dun) ==
    { e \in snowy : IF params.clearing = "All" THEN ~SetContains(dun, e) ELSE SetContains(al, e) }

\* cycle_cost_compute!(sol, alloc): the edges that are slowed
slowed_alloc(snowy, al) == { e \in snowy : SetContains(al, e) }

swap(s, a, b) == [s EXCEPT ![a] = s[b], ![b] = s[a]]

\* match params.reorder { .. }: the orders the iteration may go on with
reorder(params, ord, sols) ==
    LET vs == Len(ord)
    IN  CASE params.reorder = "No" -> {ord}
          [] params.reorder = "Swap2Random" -> { swap(ord, a, b) : a \in 1..vs, b \in 1..vs }
          [] params.reorder = "Swap2MostLeast" ->
                IF vs < 2 THEN {ord}
                ELSE LET key(k) == Len(sols[ord[k]])
                         pmin == CHOOSE k \in 1..vs :
                                   \A j \in 1..vs : key(k) < key(j) \/ (key(k) = key(j) /\ k <= j)
                         pmax == CHOOSE k \in 1..vs :
                                   \A j \in 1..vs : key(k) > key(j) \/ (key(k) = key(j) /\ k >= j)
                     IN  { swap(ord, ord[pmin], ord[pmax]) }
          [] params.reorder = "RandomReorder" ->
                { o \in [1..vs -> 1..vs] : \A v \in 1..vs : \E k \in 1..vs : o[k] = v }

\* the locals of the loop "for i in &order" before its first iteration
provide_start(vs) ==
    [sol_next |-> [k \in 1..vs |-> <<>>], costs_next |-> [k \in 1..vs |-> 0],
     cost_next_all |-> 0, cost_next_max |-> 0, dun |-> {}, failed |-> FALSE]

\* for i in &order: the iteration for vehicle v, from the locals st
provide_vehicle(D, es, a, st, v) ==
    IF st.failed THEN {st}
    ELSE { IF r.tag = "Ok"
           THEN LET cost == cycle_cost_compute(r.sol,
                                slowed_dun(a.params, a.snowy, a.alloc[v], st.dun),
                                a.params.slowdown)
                IN  [sol_next |-> [st.sol_next EXCEPT ![v] = r.sol],
                     costs_next |-> [st.costs_next EXCEPT ![v] = cost],
                     cost_next_all |-> st.cost_next_all + cost,
                     cost_next_max |-> IF cost > st.cost_next_max THEN cost ELSE st.cost_next_max,
                     dun |-> IF a.params.clearing = "All"
                             THEN st.dun \cup SeqRange(r.sol) ELSE st.dun,
                     failed |-> FALSE]
           ELSE [st EXCEPT !.failed = TRUE]
           : r \in solve_pwrp(D, es, a.sps[v],
                              { e \in a.alloc[v] : ~SetContains(st.dun, e) }) }

\* for i in &order, from every locals of S, the vehicles of ord in turn
RECURSIVE provide(_, _, _, _, _)
provide(D, es, a, ord, S) ==
    IF ord = <<>> THEN S
    ELSE provide(D, es, a, Tail(ord),
                 UNION { provide_vehicle(D, es, a, st, Head(ord)) : st \in S })

\* the nodes of the tour of a vehicle: path_to_nodes(..).map(|(v, _)| v)
vycle(path, n0) == [k \in 1..(Len(path) + 1) |-> path_to_nodes(path, n0)[k][1]]

\* the loops over iu, ju and iv of the recycle step: the first << iu, ju, iv >>
\* (0-based) where tour vi passes the node vj[ju] at iu and again at iv
recycle_find(vi, vj) ==
    LET M == { m \in (0..(Len(vi) - 1)) \X (0..(Len(vj) - 1)) \X (0..(Len(vi) - 1)) :
                 /\ vi[m[1] + 1] = vj[m[2] + 1]
                 /\ m[3] > m[1]
                 /\ vi[m[3] + 1] = vi[m[1] + 1] }
        before(m, n) == \/ m[1] < n[1]
                        \/ (m[1] = n[1] /\ m[2] < n[2])
                        \/ (m[1] = n[1] /\ m[2] = n[2] /\ m[3] <= n[3])
    IN  IF M = {} THEN None
        ELSE Some(CHOOSE m \in M : \A n \in M : before(m, n))

\* mutant of splice_out: the tour is cut at iu
splice_out_rest(s, iu, iv) == SubSeq(s, 1, iu)

\* Vec::splice(iu..iv, vec![]): what stays
splice_out(s, iu, iv) == SubSeq(s, 1, iu) \o SubSeq(s, iv + 1, Len(s))

\* the recycle step from the pair of positions (pi, pj) of order on; x holds
\* sol_improv and vycles
RECURSIVE recycle_pairs(_, _, _, _, _)
recycle_pairs(ord, costs, x, pi, pj) ==
    LET vs == Len(ord)
    IN  IF pi > vs THEN x
        ELSE IF pj > vs THEN recycle_pairs(ord, costs, x, pi + 1, pi + 2)
        ELSE LET a == IF costs[ord[pi]] > costs[ord[pj]] THEN ord[pi] ELSE ord[pj]
                 b == IF costs[ord[pi]] > costs[ord[pj]] THEN ord[pj] ELSE ord[pi]
                 m == recycle_find(x.vycles[a], x.vycles[b])
             IN  IF m = None THEN recycle_pairs(ord, costs, x, pi, pj + 1)
                 ELSE LET iu == m[1][1]
                          ju == m[1][2]
                          iv == m[1][3]
                          mine  == SubSeq(x.sol_improv[a], iu + 1, iv)
                          minev == SubSeq(x.vycles[a], iu + 1, iv)
                      IN  recycle_pairs(ord, costs,
                            [moves |-> Append(x.moves,
                                        [i |-> a, j |-> b, iu |-> iu, iv |-> iv, ju |-> ju,
                                         vycle_i |-> x.vycles[a], vycle_j |-> x.vycles[b]]),
                             sol_improv |-> [x.sol_improv EXCEPT
                                               ![a] = splice_out(x.sol_improv[a], iu, iv),
                                               ![b] = splice(x.sol_improv[b], ju, mine)],
                             vycles |-> [x.vycles EXCEPT
                                               ![a] = splice_out(x.vycles[a], iu, iv),
                                               ![b] = splice(x.vycles[b], ju, minev)]],
                            pi, pj + 1)

\* the recycle step ExpensiveToCheap: sol_improv
recycle(ord, costs, sols, sps) ==
    recycle_pairs(ord, costs,
                  [moves |-> <<>>, sol_improv |-> sols,
                   vycles |-> [k \in 1..Len(sols) |-> vycle(sols[k], sps[k])]],
                  1, 2).sol_improv

\* the splices the recycle step makes, in turn: from vehicle i, whose nodes
\* were vycle_i, the edges iu..iv go to vehicle j, whose nodes were vycle_j,
\* at ju
recycle_moves(ord, costs, sols, sps) ==
    recycle_pairs(ord, costs,
                  [moves |-> <<>>, sol_improv |-> sols,
                   vycles |-> [k \in 1..Len(sols) |-> vycle(sols[k], sps[k])]],
                  1, 2).moves

RECURSIVE SumTo(_, _)
SumTo(c, n) == IF n = 0 THEN 0 ELSE c[n] + SumTo(c, n - 1)

\* costs_improv: the cost of every tour of sols under allocs
costs_improv(params, snowy, sols, allocs) ==
    [k \in 1..Len(sols) |->
        cycle_cost_compute(sols[k], slowed_alloc(snowy, allocs[k]), params.slowdown)]

\* the sum of the costs of the tours sols under allocs
cost_improv_all(params, snowy, sols, allocs) ==
    SumTo(costs_improv(params, snowy, sols, allocs), Len(sols))

\* the greatest of the costs of the tours sols under allocs, from 0
cost_improv_max(params, snowy, sols, allocs) ==
    LET c(k) == cycle_cost_compute(sols[k], slowed_alloc(snowy, allocs[k]), params.slowdown)
        top  == { k \in 1..Len(sols) : \A j \in 1..Len(sols) : c(k) >= c(j) }
    IN  IF top = {} THEN 0 ELSE c(CHOOSE k \in top : TRUE)

\* mutant of better: a lower greatest cost is enough
better_on_cost(value, cost_max, vb, cmb) == value < vb \/ cost_max < cmb

\* the test both acceptances share: the value is lower, or it is not higher
\* and the greatest cost is lower
better(value, cost_max, vb, cmb) == value < vb \/ (value <= vb /\ cost_max < cmb)

\* one turn of the main loop after the tours nx were provided in the order
\* ord: the locals it may leave; the draw against the temperature is made
\* only when the comparison before it holds, and may go either way
solve_evaluate(a, sols, vb, cmb, ord, nx) ==
    LET params     == a.params
        value_next == params.weight_total * nx.cost_next_all
                        + params.weight_max * nx.cost_next_max
        accepted   == better(value_next, nx.cost_next_max, vb, cmb)
        sols1      == IF accepted THEN nx.sol_next ELSE sols
        vb1        == IF accepted THEN value_next ELSE vb
        cmb1       == IF accepted THEN nx.cost_next_max ELSE cmb
        al1        == IF accepted /\ params.clearing = "All"
                      THEN sol_to_alloc(ord, sols1, a.alloc, a.snowy) ELSE a.alloc
    IN  IF params.recycle # "ExpensiveToCheap"
        THEN {[solution |-> sols1, value_best |-> vb1, cost_max_best |-> cmb1,
               alloc |-> al1, improv |-> None]}
        ELSE LET sol_improv   == recycle(ord, nx.costs_next, nx.sol_next, a.sps)
                 cim          == cost_improv_max(params, a.snowy, sol_improv, al1)
                 value_improv == params.weight_total * nx.cost_next_all
                                   + params.weight_max * nx.cost_next_max
                 locals(acc)  == Some([moves |-> recycle_moves(ord, nx.costs_next,
                                                               nx.sol_next, a.sps),
                                       costs_next |-> nx.costs_next,
                                       cost_improv_all |->
                                           cost_improv_all(params, a.snowy, sol_improv, al1),
                                       cost_improv_max |-> cim,
                                       value_improv |-> value_improv,
                                       accepted |-> acc])
                 kept         == [solution |-> sols1, value_best |-> vb1,
                                  cost_max_best |-> cmb1, alloc |-> al1,
                                  improv |-> locals(FALSE)]
                 taken        == [solution |-> sol_improv, value_best |-> value_improv,
                                  cost_max_best |-> cim,
                                  alloc |-> sol_to_alloc(ord, sol_improv, al1, a.snowy),
                                  improv |-> locals(TRUE)]
             IN  IF better(value_improv, cim, vb1, cmb1) THEN {taken}
                 ELSE IF value_improv < value_next THEN {taken, kept}
                 ELSE {kept}

solve_args == [params |-> args.params, snowy |-> args.snowy, sps |-> args.sps, alloc |-> alloc]

\* one iteration of "for _mi in 0..main_iterations": it is completed when
\* every solve_pwrp call returns Ok, and aborts when one returns Err
\* (panic!("Can't reach everywhere")) or aborts itself
solve_iteration ==
    /\ func = "solve"
    /\ pc = "main"
    /\ i < args.params.main_iterations
    /\ \E ord \in reorder(args.params, order, solution) :
         \E nx \in provide(DIRESPECT, edges, solve_args, ord, {provide_start(Len(ord))}) :
           /\ order' = ord
           /\ IF nx.failed
              THEN /\ pc' = "panic"
                   /\ UNCHANGED <<i, alloc, solution, value_best, cost_max_best, improv>>
              ELSE /\ \E r \in solve_evaluate(solve_args, solution, value_best,
                                              cost_max_best, ord, nx) :
                        /\ solution' = r.solution
                        /\ value_best' = r.value_best
                        /\ cost_max_best' = r.cost_max_best
                        /\ alloc' = r.alloc
                        /\ improv' = r.improv
                   /\ i' = i + 1
                   /\ UNCHANGED pc
    /\ UNCHANGED <<func, DIRESPECT, edges, g, input, args, ret, cycles, complete, sol, y>>

\* the loop ends: solution is returned
solve_return ==
    /\ func = "solve"
    /\ pc = "main"
    /\ i >= args.params.main_iterations
    /\ pc' = "returned"
    /\ ret' = solution
    /\ UNCHANGED <<func, DIRESPECT, edges, g, input, i, args, cycles, complete, alloc, sol, y>>
    /\ UNCHANGED plow_vars

\* the roads road::solve hands on: the directions are not respected
SolveRoads == { G \in RoadSets(Nodes, MaxPlowEdges) : \A r \in G : ~r.directed }

\* road::solve up to the call g.solve::<false>(&sns, &locations, &snowy, params)
InitSolve ==
    /\ func = "solve"
    /\ pc = "initial_allocation"
    /\ DIRESPECT = FALSE
    /\ input \in SolveRoads
    /\ edges \in eulirianize(FALSE, Graph_new(Nodes, input))
    /\ g = EmptyVecs
    /\ i = 0
    /\ \E sps \in UNION { [1..k -> Nodes] : k \in 1..MaxDrones } :
         \E snowy \in {EdgesOf(edges)} \cup SUBSET { e \in EdgesOf(edges) : e.iidx = 0 } :
           \E params \in Parameters :
             args = [sps |-> sps, locs |-> [k \in 1..Len(sps) |-> coordinates[sps[k]]],
                     snowy |-> snowy, params |-> params]
    /\ ret = None
    /\ cycles = <<>>
    /\ complete = <<>>
    /\ alloc = [k \in 1..Len(args.sps) |-> {}]
    /\ sol = <<>>
    /\ y = 0
    /\ NoPlow

NextSolve ==
    \/ initial_allocation
    \/ solve_iteration
    \/ solve_return

SpecSolve == InitSolve /\ [][NextSolve]_vars

\* no value that is computed reaches the number that stands for infinity
InfinityIsGreatest ==
    func = "solve" => (value_best <= Infinity /\ (i >= 1 => value_best < Infinity))

\* ------------------------------------------------ the annealing driver
\* C14: in PlowSolver::solve, value_best after a main iteration is less than
\* or equal to value_best before it, for every parameter setting and also
\* when the recycled solution is accepted
C14_ValueBestNonIncreasing ==
    [][(func = "solve" /\ pc = "main" /\ i' = i + 1) => value_best' <= value_best]_vars

\* vehicle v is nearest to neither end of edge e
NotNear(v, e) ==
    /\ closest(args.locs, coordinates[e.p1]) # v
    /\ closest(args.locs, coordinates[e.p2]) # v

\* two iterations are done and, vehicles clearing only their allocation, a
\* vehicle holds an edge initial_allocation cannot have given it: a recycled
\* solution was accepted and reconciled
C14_Witness ==
    /\ func = "solve"
    /\ pc = "main"
    /\ i = 2
    /\ args.params.clearing = "OnlyAllocated"
    /\ \E v \in 1..Len(alloc) : \E e \in alloc[v] : NotNear(v, e)

\* ------------------------------------------------ the allocation table
\* the sets of the table al are pairwise disjoint, their union is S and the
\* sum of their sizes is the size of S
RECURSIVE SumSizes(_)
SumSizes(al) == IF al = <<>> THEN 0 ELSE Cardinality(Head(al)) + SumSizes(Tail(al))

Partition(al, S) ==
    /\ \A a \in 1..Len(al) : \A b \in 1..Len(al) : a # b => al[a] \cap al[b] = {}
    /\ UNION SeqRange(al) = S
    /\ SumSizes(al) = Cardinality(S)

\* C15: once initial_allocation is over, and so after every sol_to_alloc of
\* every iteration, the K sets of alloc are pairwise disjoint and their union
\* is the set of the snowy edges
C15_AllocPartition ==
    (func = "solve" /\ pc \in {"main", "returned", "panic"}) =>
        /\ Len(alloc) = Len(args.sps)
        /\ Partition(alloc, args.snowy)

\* every vehicle clears all edges, an iteration is done, both vehicles hold
\* edges and sol_to_alloc has moved an edge to a vehicle that is nearest to
\* neither of its ends
C15_Witness ==
    /\ func = "solve"
    /\ pc = "main"
    /\ i >= 1
    /\ args.params.clearing = "All"
    /\ Len(alloc) = 2
    /\ alloc[1] # {}
    /\ alloc[2] # {}
    /\ \E v \in 1..2 : \E e \in alloc[v] : NotNear(v, e)

\* ------------------------------------------------ the tours cover the snow
\* C16: after every completed main iteration, whatever reorder, clearing and
\* recycle are, every snowy edge occurs in the tour of at least one vehicle
\* of the current best solution
C16_ToursCoverSnowy ==
    (func = "solve" /\ pc \in {"main", "returned"} /\ i >= 1) =>
        \A e \in args.snowy : \E k \in 1..Len(solution) : SeqContains(solution[k], e)

\* two iterations are done with two vehicles that both plow, and the tour of
\* one holds a snowy edge of the allocation of the other
C16_Witness ==
    /\ func = "solve"
    /\ pc = "returned"
    /\ i = 2
    /\ Len(solution) = 2
    /\ solution[1] # <<>>
    /\ solution[2] # <<>>
    /\ \E e \in alloc[1] : SeqContains(ret[2], e)
    /\ \A e \in args.snowy : \E k \in 1..2 : SeqContains(ret[k], e)

\* ------------------------------------------------ who gets a shared edge
\* the vehicles whose tour holds edge e, by their position in order
Traversers(e) == { k \in 1..Len(order) : SeqContains(solution[order[k]], e) }

\* every snowy edge some tour holds is allocated to the first vehicle of
\* order whose tour holds it, and to that vehicle only
FirstTraverserOwns ==
    \A e \in args.snowy :
        Traversers(e) # {} =>
            LET first == CHOOSE k \in Traversers(e) : \A j \in Traversers(e) : k <= j
            IN  \A v \in 1..Len(alloc) : SetContains(alloc[v], e) <=> v = order[first]

\* C17: an iteration that accepts a solution under clearing = All leaves,
\* after sol_to_alloc, every snowy edge that some tour of the solution holds
\* with the first vehicle of the evaluation order whose tour holds it, and
\* with no other
C17_FirstInOrderOwns ==
    [][(/\ func = "solve"
        /\ pc = "main"
        /\ i' = i + 1
        /\ args.params.clearing = "All"
        /\ value_best' < value_best) => FirstTraverserOwns']_vars

\* the same with the recycle step off: the only sol_to_alloc is that of
\* the acceptance
C17_FirstInOrderOwnsNoRecycle ==
    [][(/\ func = "solve"
        /\ pc = "main"
        /\ i' = i + 1
        /\ args.params.clearing = "All"
        /\ args.params.recycle = "No"
        /\ value_best' < value_best) => FirstTraverserOwns']_vars

\* what the code does: the last vehicle of order whose tour holds the edge
\* gets it
LastTraverserOwns ==
    \A e \in args.snowy :
        Traversers(e) # {} =>
            LET last == CHOOSE k \in Traversers(e) : \A j \in Traversers(e) : k >= j
            IN  \A v \in 1..Len(alloc) : SetContains(alloc[v], e) <=> v = order[last]

C17_LastInOrderOwns ==
    [][(/\ func = "solve"
        /\ pc = "main"
        /\ i' = i + 1
        /\ args.params.clearing = "All"
        /\ value_best' < value_best) => LastTraverserOwns']_vars

\* ------------------------------------------------ the first allocation
\* the edge a step of initial_allocation has allocated, and its vehicle
Allocated == (UNION SeqRange(alloc))' \ UNION SeqRange(alloc)

\* C18: a step of initial_allocation gives an edge whose ends have the same
\* nearest vehicle to that vehicle and, when the nearest vehicles lv1 of p1
\* and lv2 of p2 differ, to the one that holds fewer edges before the step,
\* and to lv1 when both hold the same number
C18_LessLoadedThenLv1 ==
    [][(func = "solve" /\ pc = "initial_allocation" /\ alloc' # alloc) =>
          \A e \in Allocated :
            LET lv1 == closest(args.locs, coordinates[e.p1])
                lv2 == closest(args.locs, coordinates[e.p2])
                lv  == IF lv1 = lv2 THEN lv1
                       ELSE IF Cardinality(alloc[lv2]) < Cardinality(alloc[lv1])
                            THEN lv2 ELSE lv1
            IN  e \in alloc'[lv]]_vars

\* what the code does: lv2 on equal load
C18_LessLoadedThenLv2 ==
    [][(func = "solve" /\ pc = "initial_allocation" /\ alloc' # alloc) =>
          \A e \in Allocated :
            LET lv1 == closest(args.locs, coordinates[e.p1])
                lv2 == closest(args.locs, coordinates[e.p2])
                lv  == IF lv1 = lv2 THEN lv1
                       ELSE IF Cardinality(alloc[lv2]) <= Cardinality(alloc[lv1])
                            THEN lv2 ELSE lv1
            IN  e \in alloc'[lv]]_vars

\* the part of the claim without the tie: same nearest vehicle, or one of
\* the two strictly less loaded
C18_WithoutTie ==
    [][(func = "solve" /\ pc = "initial_allocation" /\ alloc' # alloc) =>
          \A e \in Allocated :
            LET lv1 == closest(args.locs, coordinates[e.p1])
                lv2 == closest(args.locs, coordinates[e.p2])
            IN  /\ lv1 = lv2 => e \in alloc'[lv1]
                /\ (lv1 # lv2 /\ Cardinality(alloc[lv2]) < Cardinality(alloc[lv1]))
                      => e \in alloc'[lv2]
                /\ (lv1 # lv2 /\ Cardinality(alloc[lv1]) < Cardinality(alloc[lv2]))
                      => e \in alloc'[lv1]]_vars

\* ------------------------------------------------ brr.rs: merge_snow_statuses
\* depths are counted in units of 1 / DepthUnit, so that the halvings of a
\* stream of MaxSnows samples are exact
DepthUnit == 2 ^ MaxSnows

\* data::SnowStatusElement
SnowStatusElement ==
    [p1 : Nodes, p2 : Nodes, discriminator : {None, Some(1)},
     depth : { d * DepthUnit : d \in (-1)..MaxDepth }]

max(a, b) == IF a >= b THEN a ELSE b

\* mutant of merge_depth: every sample with snow is averaged in, the first too
merge_depth_averaging_first(entry, depth) ==
    IF depth <= 0 THEN max(entry, depth) ELSE (entry + depth) \div 2

\* the new value of the entry of a key on a sample of depth
merge_depth(entry, depth) ==
    IF entry <= 0 \/ depth <= 0 THEN max(entry, depth) ELSE (entry + depth) \div 2

\* the key of the IndexMap
snow_key(s) == <<s.p1, s.p2, s.discriminator>>

\* the body of "for s in snows": keyed is the IndexMap, as the sequence of
\* its entries in insertion order
merge_sample(keyed, s) ==
    LET known == \E k \in 1..Len(keyed) : keyed[k].key = snow_key(s)
        with  == IF known THEN keyed ELSE Append(keyed, [key |-> snow_key(s), depth |-> 0])
        at    == CHOOSE k \in 1..Len(with) : with[k].key = snow_key(s)
    IN  [with EXCEPT ![at].depth = merge_depth(with[at].depth, s.depth)]

RECURSIVE merge_samples(_, _)
merge_samples(keyed, snows) ==
    IF snows = <<>> THEN keyed
    ELSE merge_samples(merge_sample(keyed, Head(snows)), Tail(snows))

merge_snow_statuses(snows) ==
    LET keyed == merge_samples(<<>>, snows)
    IN  [k \in 1..Len(keyed) |->
            [p1 |-> keyed[k].key[1], p2 |-> keyed[k].key[2],
             discriminator |-> keyed[k].key[3], depth |-> keyed[k].depth]]

InitSnow ==
    /\ func = "merge_snow_statuses"
    /\ pc = "call"
    /\ DIRESPECT = FALSE
    /\ input = {}
    /\ edges = EmptySets
    /\ g = EmptyVecs
    /\ i = 0
    /\ args \in [snows : UNION { [1..n -> SnowStatusElement] : n \in 0..MaxSnows }]
    /\ ret = None
    /\ NoTour
    /\ NoPlow

merge_snow_statuses_call ==
    /\ func = "merge_snow_statuses"
    /\ pc = "call"
    /\ ret' = merge_snow_statuses(args.snows)
    /\ pc' = "returned"
    /\ UNCHANGED <<func, DIRESPECT, edges, g, input, i, args>>
    /\ UNCHANGED tour_vars
    /\ UNCHANGED plow_vars

NextSnow == merge_snow_statuses_call

SpecSnow == InitSnow /\ [][NextSnow]_vars

\* the positions of the stream where a key appears for the first time
FirstAppearances(snows) ==
    { k \in 1..Len(snows) : \A j \in 1..(k - 1) : snow_key(snows[j]) # snow_key(snows[k]) }

\* the left fold of the claim over the depths of key, in stream order
RECURSIVE FoldDepths(_, _, _)
FoldDepths(acc, snows, key) ==
    IF snows = <<>> THEN acc
    ELSE LET depth == Head(snows).depth
             next  == IF snow_key(Head(snows)) # key THEN acc
                      ELSE IF acc > 0 /\ depth > 0 THEN (acc + depth) \div 2
                      ELSE IF acc >= depth THEN acc ELSE depth
         IN  FoldDepths(next, Tail(snows), key)

DirectedPart(E, n) ==
    -Abs(Cardinality({ e \in E : e.directed /\ e.p1 = n })
         - Cardinality({ e \in E : e.directed /\ e.p2 = n }))

Loops(E, n) == { e \in E : e.p1 = n /\ e.p2 = n }

\* the edges of E at n that are not self-loops
Links(E, n) == { e \in E : n \in {e.p1, e.p2} /\ e.p1 # e.p2 }

\* the definition of the claim over the set E of the edges at n: every edge
\* with a self-loop counted once, or the directed part plus the undirected
\* edges that are not self-loops
CombinedDegreeOnce(D, E, n) ==
    IF D THEN DirectedPart(E, n) + Cardinality({ e \in Links(E, n) : ~e.directed })
    ELSE Cardinality(Links(E, n)) + Cardinality(Loops(E, n))

\* C20 as stated: the degree Phase B of both implementations computes for a
\* node is the definition with each self-loop counted once
C20_DegreeLoopOnce ==
    pc # "PhaseA" =>
    /\ func = "eulirianize" =>
         \A n \in Nodes : degree(DIRESPECT, edges, n) = CombinedDegreeOnce(DIRESPECT, edges[n], n)
    /\ func = "kreek" =>
         \A n \in Nodes :
           combined_degree(DIRESPECT, n, g[n]) = CombinedDegreeOnce(DIRESPECT, SeqRange(g[n]), n)

\* C20: the degree Phase B computes for a node counts a self-loop never once:
\* Graph::degree (graph.rs) leaves self-loops out, combined_degree (brr.rs)
\* counts each twice, with D false over all edges at n and with D true over
\* the undirected ones, added to the directed part
C20_DegreeLoopEven ==
    pc # "PhaseA" =>
    /\ func = "eulirianize" =>
         \A n \in Nodes :
           degree(DIRESPECT, edges, n) =
             IF DIRESPECT
             THEN DirectedPart(edges[n], n)
                    + Cardinality({ e \in Links(edges[n], n) : ~e.directed })
             ELSE Cardinality(Links(edges[n], n))
    /\ func = "kreek" =>
         \A n \in Nodes :
           LET E == SeqRange(g[n])
           IN  combined_degree(DIRESPECT, n, g[n]) =
                 IF DIRESPECT
                 THEN DirectedPart(E, n)
                        + Cardinality({ e \in Links(E, n) : ~e.directed })
                        + 2 * Cardinality({ e \in Loops(E, n) : ~e.directed })
                 ELSE Cardinality(Links(E, n)) + 2 * Cardinality(Loops(E, n))

\* kreek has returned Ok on a graph where a node has a self-loop and roads
\* to another node, one of them a copy made by Phase B
C20_Witness ==
    /\ func = "kreek"
    /\ pc = "Ok"
    /\ \E n \in Nodes :
         /\ Loops(SeqRange(g[n]), n) # {}
         /\ \E e \in Links(SeqRange(g[n]), n) : e.iidx = 1
         /\ combined_degree(DIRESPECT, n, g[n]) % 2 = 0


\* ------------------------------------------------------------------- C21
\* Eulerisation on the graphs of up to MaxRepairEdges roads over RepairNodes
InitRepair ==
    /\ func \in {"eulirianize", "kreek"}
    /\ pc = "PhaseA"
    /\ DIRESPECT \in BOOLEAN
    /\ input \in RoadSets(RepairNodes, MaxRepairEdges)
    /\ edges = Graph_new(RepairNodes, input)
    /\ g = try_from(RepairNodes, input)
    /\ i = 0
    /\ args = None
    /\ ret = None
    /\ NoTour
    /\ NoPlow

SpecRepair == InitRepair /\ [][NextEuler]_vars

\* the number of nodes whose combined degree is odd
OddNodes ==
    IF func = "kreek"
    THEN Cardinality({ n \in DOMAIN g : combined_degree(DIRESPECT, n, g[n]) % 2 # 0 })
    ELSE Cardinality({ n \in DOMAIN edges : degree(DIRESPECT, edges, n) % 2 # 0 })

\* a step of the degree-repair loop that duplicates an edge, without DIRESPECT
RepairStep ==
    /\ func \in {"eulirianize", "kreek"}
    /\ pc = "PhaseB"
    /\ ~DIRESPECT
    /\ (edges' # edges \/ g' # g)

C21_RepairLowersOddByTwoGraph ==
    [][(RepairStep /\ func = "eulirianize") => OddNodes' <= OddNodes - 2]_vars

C21_RepairLowersOddByTwoBrr ==
    [][(RepairStep /\ func = "kreek") => OddNodes' <= OddNodes - 2]_vars

repair0 == Graph_new(DOMAIN edges, input)

value(params, all, most) == params.weight_total * all + params.weight_max * most

\* the recycle step of the last iteration has moved a sub-cycle
Recycled == func = "solve" /\ improv # None /\ improv[1].moves # <<>>

\* C22: the value by which the recycled solution is judged, and which
\* value_best holds once it is accepted, is weight_total times the sum of
\* the costs of the recycled tours plus weight_max times the greatest of them.
C22_RecycledValue ==
    (func = "solve" /\ improv # None) =>
        LET v == value(args.params, improv[1].cost_improv_all, improv[1].cost_improv_max)
        IN  /\ improv[1].value_improv = v
            /\ improv[1].accepted => value_best = v

\* what the code judges by: the value of the tours before the recycle step
C22_RecycledValueIsNext ==
    (func = "solve" /\ improv # None) =>
        LET c    == improv[1].costs_next
            most == CHOOSE m \in {0} \cup { c[k] : k \in DOMAIN c } :
                        \A k \in DOMAIN c : m >= c[k]
            v    == value(args.params, SumTo(c, Len(c)), most)
        IN  /\ improv[1].value_improv = v
            /\ improv[1].accepted => value_best = v

\* a recycled solution of another value than the one it was judged by is
\* accepted
C22_Reached ==
    ~(/\ Recycled
      /\ improv[1].accepted
      /\ value_best # value(args.params, improv[1].cost_improv_all,
                            improv[1].cost_improv_max))

\* ------------------------------------------------------------------- C23
\* the splices of the recycle step of the last iteration
Moves == IF func = "solve" /\ improv # None THEN improv[1].moves ELSE <<>>

\* the moved range iu..iv is a closed sub-walk of the tour of i, and its first
\* node is the node of the tour of j at ju (the positions are 0-based)
ClosedAtInsertion(m) ==
    /\ m.iu < m.iv
    /\ m.iv + 1 <= Len(m.vycle_i)
    /\ m.ju + 1 <= Len(m.vycle_j)
    /\ m.vycle_i[m.iu + 1] = m.vycle_i[m.iv + 1]
    /\ m.vycle_j[m.ju + 1] = m.vycle_i[m.iu + 1]

\* no two splices are between the same two vehicles
OnePerPair ==
    \A m, n \in 1..Len(Moves) :
        m # n => {Moves[m].i, Moves[m].j} # {Moves[n].i, Moves[n].j}

\* C23: with recycle = ExpensiveToCheap a sub-cycle goes from vehicle i to
\* vehicle j only when the cost of i in this iteration is greater than the
\* cost of j, the moved range is a closed sub-walk of the tour of i whose first
\* node is the node of j at the insertion position, and at most one sub-cycle
\* is moved for each pair of vehicles in an iteration.
C23_RecycleMoves ==
    /\ \A m \in 1..Len(Moves) :
          /\ improv[1].costs_next[Moves[m].i] > improv[1].costs_next[Moves[m].j]
          /\ ClosedAtInsertion(Moves[m])
    /\ OnePerPair

\* C23 with the costs as the code compares them: the cost of i is not less
C23_RecycleMovesNotCheaper ==
    /\ \A m \in 1..Len(Moves) :
          /\ improv[1].costs_next[Moves[m].i] >= improv[1].costs_next[Moves[m].j]
          /\ ClosedAtInsertion(Moves[m])
    /\ OnePerPair

\* a sub-cycle is moved between two vehicles of the same cost
C23_EqualCostsReached ==
    ~(\E m \in 1..Len(Moves) :
        improv[1].costs_next[Moves[m].i] = improv[1].costs_next[Moves[m].j])

\* ------------------------------------------------------------------- C24
\* the edges of the graph under Eulerisation
AllEdges ==
    IF func = "kreek"
    THEN UNION { SeqRange(g[n]) : n \in DOMAIN g }
    ELSE UNION { edges[n] : n \in DOMAIN edges }

\* the members of the similarity class (p1, p2, discriminator) of e
SimilarTo(e) == { f \in AllEdges : is_similar(e, f) }

RECURSIVE SumLen(_, _)
SumLen(gr, n) == IF n = 0 THEN 0 ELSE Len(gr[n]) + SumLen(gr, n - 1)

\* graph_edges: half the entries of the Vecs
graph_edges(gr) == SumLen(gr, Cardinality(DOMAIN gr)) \div 2

\* C24: Eulerisation duplicates each edge at most once. The roads of the
\* input are pairwise non-similar and have iidx 0; at every step and at the
\* return every similarity class of the graph has at most two members, of
\* iidx 0 and 1, and the graph has at most twice the edges of the input.
C24_DuplicatedAtMostOnce ==
    func \in {"eulirianize", "kreek"} =>
        /\ \A e \in AllEdges :
              /\ e.iidx \in {0, 1}
              /\ Cardinality(SimilarTo(e)) <= 2
        /\ Cardinality(AllEdges) <= 2 * Cardinality(input)
        /\ func = "kreek" => graph_edges(g) <= 2 * Cardinality(input)

\* Eulerisation returned Ok with a graph where the degree-repair loop has
\* duplicated a road of a node with several roads, and another road has no
\* duplicate
C24_Witness ==
    /\ func \in {"eulirianize", "kreek"}
    /\ pc = "Ok"
    /\ \E e \in AllEdges :
          /\ e.iidx = 1
          /\ Cardinality({ r \in input : e.p1 \in {r.p1, r.p2} }) >= 2
          /\ Cardinality({ r \in input : e.p2 \in {r.p1, r.p2} }) >= 2
    /\ \E e \in AllEdges : Cardinality(SimilarTo(e)) = 1

\* ------------------------------------------------------------------- C25
\* no two positions of the path hold the same edge
PairwiseDistinct(path) ==
    \A m, n \in 1..Len(path) : m # n => ~EdgeEq(path[m], path[n])

\* C25: throughout solve_pwrp, after every growth or reach splice, the edges
\* of sol are pairwise distinct and no edge of alloc is in sol.
C25_SolDistinctAndOffAlloc ==
    func = "solve_pwrp" =>
        /\ PairwiseDistinct(sol)
        /\ \A e \in alloc : ~SeqContains(sol, e)

\* the two halves of C25
C25_SolDistinct == func = "solve_pwrp" => PairwiseDistinct(sol)

C25_SolOffAlloc == func = "solve_pwrp" => \A e \in alloc : ~SeqContains(sol, e)

\* Ok with a tour of three edges or more, for a required edge at the start
\* and another away from it, over an edge that was not required
C25_Witness ==
    /\ func = "solve_pwrp"
    /\ pc = "Ok"
    /\ Len(ret) >= 3
    /\ \E e \in args.alloc : args.sp \in {e.p1, e.p2}
    /\ \E e \in args.alloc : args.sp \notin {e.p1, e.p2}
    /\ \E k \in 1..Len(ret) : ~SetContains(args.alloc, ret[k])
====
